---- MODULE Spec2Model ----
(***************************************************************************)
(* NEXUS GROUP backend: role-based access control and the expense          *)
(* (depense) approval workflow with its budget side effect.                *)
(*                                                                         *)
(* Amounts (montant, budget_consomme) are Python floats in the source;     *)
(* they are modelled as integers, so the arithmetic here is exact.         *)
(***************************************************************************)
EXTENDS Integers, FiniteSets, Sequences, TLC

(***************************************************************************)
(* Roles (core/security.py, RoleEnum)                                      *)
(***************************************************************************)
ADMIN_GENERAL == "admin_general"
ADMIN_CHANTIER == "admin_chantier"
COMPTABLE == "comptable"
CHEF_CHANTIER == "chef_chantier"
MAGASINIER == "magasinier"
OUVRIER == "ouvrier"
CLIENT == "client"
DIRECTION == "direction"

all_roles ==
  {ADMIN_GENERAL, ADMIN_CHANTIER, COMPTABLE, CHEF_CHANTIER, MAGASINIER,
   OUVRIER, CLIENT, DIRECTION}

\* ROLE_INFO[role]["level"]
ROLE_INFO_level ==
  (ADMIN_GENERAL :> 10) @@ (ADMIN_CHANTIER :> 8) @@ (COMPTABLE :> 6) @@
  (CHEF_CHANTIER :> 5) @@ (MAGASINIER :> 4) @@ (OUVRIER :> 2) @@
  (CLIENT :> 1) @@ (DIRECTION :> 9)

\* get_role_info(role).get("level", 0): the default record carries level 0
get_role_level(role) ==
  IF role \in DOMAIN ROLE_INFO_level THEN ROLE_INFO_level[role] ELSE 0

(***************************************************************************)
(* Permission table (core/permissions.py, ROLE_PERMISSIONS)                *)
(***************************************************************************)
ROLE_PERMISSIONS ==
  ("admin_general" :>
      {"all"}) @@
  ("admin_chantier" :>
      {"view_chantiers", "view_chantiers_assignes", "edit_chantier",
       "view_taches", "create_tache", "edit_tache", "delete_tache",
       "assign_tache", "view_journal", "create_journal",
       "edit_journal", "view_documents", "upload_document",
       "delete_document", "download_document",
       "validate_document_client", "view_employes", "view_presences",
       "manage_presences", "view_budget_chantier", "view_depenses",
       "view_commandes", "validate_commande_chantier", "view_stock",
       "view_stock_chantier", "view_equipements",
       "view_equipements_chantier", "validate_modification",
       "view_rapports", "view_rapports_chantier",
       "view_rapports_techniques", "view_notifications"}) @@
  ("comptable" :>
      {"view_chantiers", "view_all_chantiers", "view_documents",
       "view_documents_techniques", "download_document",
       "view_budget", "view_budget_global", "view_budget_chantier",
       "view_previsions", "export_budget", "view_depenses",
       "view_all_depenses", "create_depense", "view_paiements",
       "create_paiement", "manage_paiements", "view_factures",
       "create_facture", "manage_factures", "view_avances",
       "manage_avances", "view_employes", "view_all_employes",
       "view_salaires", "export_rapports", "export_finances",
       "view_rapports", "view_rapports_financiers",
       "view_notifications"}) @@
  ("chef_chantier" :>
      {"view_chantiers", "view_chantiers_assignes", "view_taches",
       "create_tache", "edit_tache", "assign_tache",
       "update_avancement", "view_journal", "create_journal",
       "edit_journal", "view_documents", "upload_document",
       "download_document", "view_employes", "view_presences",
       "create_presence", "manage_presences", "view_stock",
       "view_stock_chantier", "view_equipements",
       "view_equipements_chantier", "manage_equipements",
       "view_commandes", "create_commande",
       "create_demande_equipement", "propose_modification",
       "view_rapports", "view_rapports_chantier", "view_notifications"}) @@
  ("magasinier" :>
      {"view_chantiers", "view_all_chantiers", "view_stock",
       "view_all_stock", "create_stock", "edit_stock", "delete_stock",
       "mouvement_stock", "receive_materiel", "transfer_stock",
       "view_historique_stock", "view_equipements",
       "manage_equipements", "view_commandes", "view_documents",
       "upload_document", "download_document", "view_notifications"}) @@
  ("ouvrier" :>
      {"view_taches_assignees", "update_avancement",
       "view_presence_personnelle", "pointer", "view_notifications"}) @@
  ("client" :>
      {"view_chantier_propre", "view_avancement", "view_photos_validees",
       "view_videos_validees", "add_commentaire",
       "view_historique_etapes", "view_documents_valides",
       "download_document", "view_notifications"}) @@
  ("direction" :>
      {"view_chantiers", "view_all_chantiers", "view_taches", "view_journal",
       "view_documents", "download_document", "view_employes",
       "view_all_employes", "view_salaires", "view_presences",
       "view_all_presences", "view_budget", "view_budget_global",
       "view_budget_chantier", "view_previsions", "view_depenses",
       "view_all_depenses", "view_paiements", "view_factures",
       "view_stock", "view_all_stock", "view_historique_stock",
       "view_commandes", "view_rapports", "view_rapports_financiers",
       "view_rapports_techniques", "view_rapports_rh",
       "view_dashboard_global", "view_audit", "view_notifications"})

(***************************************************************************)
(* Decision functions (core/permissions.py, core/security.py)              *)
(***************************************************************************)
\* variant: an unknown role falls back to the ouvrier entry
permissions_get_ouvrier_default(role) ==
  IF role \in DOMAIN ROLE_PERMISSIONS THEN ROLE_PERMISSIONS[role]
                                      ELSE ROLE_PERMISSIONS[OUVRIER]

\* ROLE_PERMISSIONS.get(role, [])
permissions_get(role) ==
  IF role \in DOMAIN ROLE_PERMISSIONS THEN ROLE_PERMISSIONS[role] ELSE {}

has_permission(role, permission) ==
  IF role = ADMIN_GENERAL
    THEN TRUE
    ELSE permission \in permissions_get(role) \/ "all" \in permissions_get(role)

\* every permission named in some role's table, "all" discarded
get_role_permissions(role) ==
  IF role = ADMIN_GENERAL
    THEN (UNION {ROLE_PERMISSIONS[r] : r \in DOMAIN ROLE_PERMISSIONS}) \ {"all"}
    ELSE permissions_get(role)

\* variant: admin_chantier counted among the global-access roles
has_chantier_access_admin_chantier_global(user, chantier_id) ==
  IF user.role \in {ADMIN_GENERAL, ADMIN_CHANTIER, DIRECTION, COMPTABLE,
                    MAGASINIER}
    THEN TRUE
    ELSE chantier_id \in user.chantiers_assignes

has_chantier_access(user, chantier_id) ==
  IF user.role \in {ADMIN_GENERAL, DIRECTION, COMPTABLE, MAGASINIER}
    THEN TRUE
    ELSE chantier_id \in user.chantiers_assignes

\* the dependency returns the user (TRUE) or raises 403 (FALSE)
require_permission(user, permission) == has_permission(user.role, permission)

require_roles(user, roles) ==
  IF user.role = ADMIN_GENERAL THEN TRUE ELSE user.role \in roles

\* variant: the comptable is let through as well
require_admin_or_comptable(user) ==
  require_roles(user, {ADMIN_GENERAL, COMPTABLE})

require_admin(user) == require_roles(user, {ADMIN_GENERAL})

(***************************************************************************)
(* Bounds and input sets                                                   *)
(***************************************************************************)
MaxDepenses == 1     \* expense rows ever inserted (ids 1..MaxDepenses)

\* DepenseCreate.montant is an unconstrained float: negatives are accepted
MinMontant == 0 - 1

\* the chantier rows that exist
SiteIds == {1, 2}
\* chantier_id values a request may name; 3 names no row
SiteInputs == SiteIds \cup {3}
DepenseIds == 1..MaxDepenses
\* amounts a request may carry
Montants == {MinMontant, 1}

\* A request body after model_dump(exclude_unset=True): a record of the
\* fields that were set; <<>> is the body that sets none.
DepenseUpdate == {<<>>} \cup {[montant |-> m] : m \in Montants}
\* ChantierUpdate (endpoints/chantiers.py) has no budget_consomme field
ChantierUpdate == {<<>>, [budget_prevu |-> 1]}

(***************************************************************************)
(* Identities: the user dict get_current_user builds from a token.  login  *)
(* puts user.role and [user.chantier_id] in the token.  User 1 is the      *)
(* admin_general; users 2 and 3 hold, over time, the other roles the admin *)
(* gives them (register, update_user_role): user 2 is a comptable who is   *)
(* later made magasinier, and logs in again.  Their chantier_id is 1.  The *)
(* dict has no "chantier_id" key, so user.get("chantier_id") is None in    *)
(* every handler.  ouvrier and client hold none of the permissions the     *)
(* expense and site handlers ask for, as direction, which stands for them. *)
(***************************************************************************)
RolesOf(u) ==
  IF u = 1 THEN {ADMIN_GENERAL}
  ELSE IF u = 2 THEN {COMPTABLE, MAGASINIER}
  ELSE {ADMIN_CHANTIER, CHEF_CHANTIER, DIRECTION}

get_current_user ==
  {[user_id |-> u, role |-> r,
    chantiers_assignes |-> IF u = 1 THEN {} ELSE {1}] :
      u \in {1, 2, 3}, r \in all_roles}

Identities == {user \in get_current_user : user.role \in RolesOf(user.user_id)}

\* data_chantier_id == user.get("chantier_id"); None equals no id
is_user_chantier_id(user, data_chantier_id) ==
  "chantier_id" \in DOMAIN user /\ user.chantier_id = data_chantier_id

(***************************************************************************)
(* Expense statuses (endpoints/depenses.py, DepenseStatus)                 *)
(***************************************************************************)
EN_ATTENTE == "en_attente"
VALIDEE_CHANTIER == "validee_chantier"
APPROUVEE == "approuvee"
REJETEE == "rejetee"
ANNULEE == "annulee"

\* HTTP status codes of the responses
OK == 200
BAD_REQUEST == 400
FORBIDDEN == 403
NOT_FOUND == 404

(***************************************************************************)
(* State                                                                   *)
(***************************************************************************)
VARIABLES
  chantiers,   \* chantiers table: id -> row (the budget_consomme column)
  depenses,    \* depenses table: id -> row, or None (no row with that id)
  nextId,      \* next value of the depenses.id sequence
  last,        \* the last request and its response
  txn,         \* in-flight approve requests: session-local state of each
  query,       \* last evaluation of the pure decision functions
  users,       \* users table: id -> row, or None
  tokens,      \* the token each user holds: the identity login put in it
  notifications, \* notifications table: id -> row, or None
  documents,   \* documents table: id -> row, or None
  employes,    \* employes table: id -> row, or None
  materiels,   \* materiels table: id -> row, or None
  presences,   \* presences table: the rows in insertion order
  mouvements,  \* mouvements_stock table, in insertion order
  seq          \* next value of the id sequence of each of these tables

\* the tables the expense handlers never touch
otherTables ==
  <<users, tokens, notifications, documents, employes, materiels, mouvements,
    presences, seq>>

\* the expense-side state the other handlers never touch
depenseState == <<depenses, nextId, txn, query>>

vars ==
  <<chantiers, depenses, nextId, last, txn, query, users, tokens,
    notifications, documents, employes, materiels, mouvements, presences,
    seq>>

\* models/depense.py
Depense(montant, chantier_id, status, created_by) ==
  [montant |-> montant, chantier_id |-> chantier_id, status |-> status,
   created_by |-> created_by]

\* models/chantier.py: budget_consomme defaults to 0; the other columns
\* (nom, budget_prevu, status, ...) are not read by any modelled decision
Chantier == [budget_consomme |-> 0]

\* for field, value in update_data.items(): setattr(row, field, value),
\* seen on the modelled columns of the row
setattr_all(row, update_data) ==
  [f \in DOMAIN row |-> IF f \in DOMAIN update_data THEN update_data[f]
                                                   ELSE row[f]]

\* what the client observes: the request (handler, caller, path or body id)
\* and the status code of the response
Response(op, user, id, code) ==
  [op |-> op, user |-> user, id |-> id, code |-> code]

NoRequest ==
  [op |-> "none",
   user |-> [user_id |-> 0, role |-> "", chantiers_assignes |-> {}],
   id |-> 0, code |-> 0]

\* scalar_one_or_none() of a lookup that matches no row
None == [none |-> TRUE]

\* select(Depense).where(Depense.id == id) ... scalar_one_or_none()
Exists(id) == id \in DOMAIN depenses /\ depenses[id] # None

\* ids the rows of the other tables can take
MaxUsers == 2
MaxNotifications == 2
MaxDocuments == 2
MaxEmployes == 1
MaxMateriels == 2
MaxMouvements == 4

UserIds == 1..MaxUsers
NotificationIds == 1..MaxNotifications
DocumentIds == 1..MaxDocuments
EmployeIds == 1..MaxEmployes
MaterielIds == 1..MaxMateriels

\* Base.metadata.create_all on an empty database: no row in any table
NoOtherRows ==
  /\ users = [u \in UserIds |-> None]
  /\ tokens = [u \in UserIds |-> None]
  /\ notifications = [n \in NotificationIds |-> None]
  /\ documents = [d \in DocumentIds |-> None]
  /\ employes = [e \in EmployeIds |-> None]
  /\ materiels = [m \in MaterielIds |-> None]
  /\ mouvements = <<>>
  /\ presences = <<>>
  /\ seq = [users |-> 1, notifications |-> 1, documents |-> 1,
            employes |-> 1, materiels |-> 1]

Init ==
  /\ chantiers = [c \in SiteIds |-> Chantier]
  /\ depenses = [d \in DepenseIds |-> None]
  /\ nextId = 1
  /\ last = NoRequest
  /\ txn = <<>>
  /\ query = <<>>
  /\ NoOtherRows

(***************************************************************************)
(* POST /depenses/                                                         *)
(***************************************************************************)
create_depense_code(user, data) ==
  IF ~require_permission(user, "create_depense") THEN FORBIDDEN
  ELSE IF data.chantier_id \notin DOMAIN chantiers THEN NOT_FOUND
  ELSE IF /\ user.role = CHEF_CHANTIER
          /\ ~(\/ is_user_chantier_id(user, data.chantier_id)
               \/ data.chantier_id \in user.chantiers_assignes)
         THEN FORBIDDEN
  ELSE OK

create_depense(user, data) ==
  /\ nextId <= MaxDepenses
  /\ LET code == create_depense_code(user, data) IN
     /\ last' = Response("create_depense", user, data.chantier_id, code)
     /\ IF code = OK
          THEN /\ depenses' = [depenses EXCEPT ![nextId] =
                    Depense(data.montant, data.chantier_id, EN_ATTENTE,
                            user.user_id)]
               /\ nextId' = nextId + 1
          ELSE UNCHANGED <<depenses, nextId>>
  /\ UNCHANGED <<chantiers, txn, query, otherTables>>

(***************************************************************************)
(* PUT /depenses/{id}                                                      *)
(***************************************************************************)
\* variant: no ownership check
update_depense_code_any_creator(user, id) ==
  IF ~require_permission(user, "create_depense") THEN FORBIDDEN
  ELSE IF ~Exists(id) THEN NOT_FOUND
  ELSE IF depenses[id].status # EN_ATTENTE THEN BAD_REQUEST
  ELSE OK

update_depense_code(user, id) ==
  IF ~require_permission(user, "create_depense") THEN FORBIDDEN
  ELSE IF ~Exists(id) THEN NOT_FOUND
  ELSE IF depenses[id].status # EN_ATTENTE THEN BAD_REQUEST
  ELSE IF user.role # ADMIN_GENERAL /\ depenses[id].created_by # user.user_id
         THEN FORBIDDEN
  ELSE OK

\* only montant is modelled among the DepenseUpdate fields
update_depense(user, id, data) ==
  /\ LET code == update_depense_code(user, id) IN
     /\ last' = Response("update_depense", user, id, code)
     /\ IF code = OK /\ "montant" \in DOMAIN data
          THEN depenses' = [depenses EXCEPT ![id].montant = data.montant]
          ELSE UNCHANGED depenses
  /\ UNCHANGED <<chantiers, nextId, txn, query, otherTables>>

(***************************************************************************)
(* PUT /depenses/{id}/validate-chantier                                    *)
(***************************************************************************)
validate_depense_chantier_code(user, id) ==
  IF ~require_permission(user, "validate_commande_chantier") THEN FORBIDDEN
  ELSE IF ~Exists(id) THEN NOT_FOUND
  ELSE IF depenses[id].status # EN_ATTENTE THEN BAD_REQUEST
  ELSE IF /\ user.role = ADMIN_CHANTIER
          /\ ~has_chantier_access(user, depenses[id].chantier_id)
         THEN FORBIDDEN
  ELSE OK

validate_depense_chantier(user, id) ==
  /\ LET code == validate_depense_chantier_code(user, id) IN
     /\ last' = Response("validate_depense_chantier", user, id, code)
     /\ IF code = OK
          THEN depenses' = [depenses EXCEPT ![id].status = VALIDEE_CHANTIER]
          ELSE UNCHANGED depenses
  /\ UNCHANGED <<chantiers, nextId, txn, query, otherTables>>

(***************************************************************************)
(* PUT /depenses/{id}/approve                                              *)
(***************************************************************************)
\* variant: an expense already approuvee is approved again
approve_depense_code_reapprove(user, id) ==
  IF ~require_admin(user) THEN FORBIDDEN
  ELSE IF ~Exists(id) THEN NOT_FOUND
  ELSE IF depenses[id].status = REJETEE THEN BAD_REQUEST
  ELSE OK

approve_depense_code(user, id) ==
  IF ~require_admin(user) THEN FORBIDDEN
  ELSE IF ~Exists(id) THEN NOT_FOUND
  ELSE IF depenses[id].status = APPROUVEE THEN BAD_REQUEST
  ELSE IF depenses[id].status = REJETEE THEN BAD_REQUEST
  ELSE OK

\* chantier.budget_consomme += depense.montant, when the chantier row exists
approve_budget(table, depense) ==
  IF depense.chantier_id \in DOMAIN table
    THEN [table EXCEPT ![depense.chantier_id].budget_consomme =
            @ + depense.montant]
    ELSE table

approve_depense(user, id) ==
  /\ LET code == approve_depense_code(user, id) IN
     /\ last' = Response("approve_depense", user, id, code)
     /\ IF code = OK
          THEN /\ depenses' = [depenses EXCEPT ![id].status = APPROUVEE]
               /\ chantiers' = approve_budget(chantiers, depenses[id])
          ELSE UNCHANGED <<depenses, chantiers>>
  /\ UNCHANGED <<nextId, txn, query, otherTables>>

(***************************************************************************)
(* PUT /depenses/{id}/reject                                               *)
(***************************************************************************)
\* variant: no check of the current status
reject_depense_code_any_status(user, id) ==
  IF ~require_admin(user) THEN FORBIDDEN
  ELSE IF ~Exists(id) THEN NOT_FOUND
  ELSE OK

reject_depense_code(user, id) ==
  IF ~require_admin(user) THEN FORBIDDEN
  ELSE IF ~Exists(id) THEN NOT_FOUND
  ELSE IF depenses[id].status = APPROUVEE THEN BAD_REQUEST
  ELSE OK

reject_depense(user, id) ==
  /\ LET code == reject_depense_code(user, id) IN
     /\ last' = Response("reject_depense", user, id, code)
     /\ IF code = OK
          THEN depenses' = [depenses EXCEPT ![id].status = REJETEE]
          ELSE UNCHANGED depenses
  /\ UNCHANGED <<chantiers, nextId, txn, query, otherTables>>

(***************************************************************************)
(* DELETE /depenses/{id}                                                   *)
(***************************************************************************)
\* variant: approved expenses can be deleted
delete_depense_code_any_status(user, id) ==
  IF ~require_admin(user) THEN FORBIDDEN
  ELSE IF ~Exists(id) THEN NOT_FOUND
  ELSE OK

delete_depense_code(user, id) ==
  IF ~require_admin(user) THEN FORBIDDEN
  ELSE IF ~Exists(id) THEN NOT_FOUND
  ELSE IF depenses[id].status = APPROUVEE THEN BAD_REQUEST
  ELSE OK

\* the id of a deleted row is not issued again by the sequence
delete_depense(user, id) ==
  /\ LET code == delete_depense_code(user, id) IN
     /\ last' = Response("delete_depense", user, id, code)
     /\ IF code = OK
          THEN depenses' = [depenses EXCEPT ![id] = None]
          ELSE UNCHANGED depenses
  /\ UNCHANGED <<chantiers, nextId, txn, query, otherTables>>

(***************************************************************************)
(* PUT /chantiers/{id}                                                     *)
(***************************************************************************)
update_chantier_code(user, id, data) ==
  IF ~require_permission(user, "edit_chantier") THEN FORBIDDEN
  ELSE IF user.role = DIRECTION THEN FORBIDDEN
  ELSE IF id \notin DOMAIN chantiers THEN NOT_FOUND
  ELSE IF user.role # ADMIN_GENERAL /\ ~has_chantier_access(user, id)
         THEN FORBIDDEN
  ELSE IF "budget_prevu" \in DOMAIN data /\ user.role # ADMIN_GENERAL
         THEN FORBIDDEN
  ELSE OK

update_chantier(user, id, data) ==
  /\ LET code == update_chantier_code(user, id, data) IN
     /\ last' = Response("update_chantier", user, id, code)
     /\ IF code = OK
          THEN chantiers' = [chantiers EXCEPT ![id] = setattr_all(@, data)]
          ELSE UNCHANGED chantiers
  /\ UNCHANGED <<depenses, nextId, txn, query, otherTables>>

(***************************************************************************)
(* Requests processed one at a time                                        *)
(***************************************************************************)
Next ==
  \/ \E user \in Identities, c \in SiteInputs, m \in Montants :
       create_depense(user, [chantier_id |-> c, montant |-> m])
  \/ \E user \in Identities, id \in DepenseIds, data \in DepenseUpdate :
       update_depense(user, id, data)
  \/ \E user \in Identities, id \in DepenseIds :
       validate_depense_chantier(user, id)
  \/ \E user \in Identities, id \in DepenseIds : approve_depense(user, id)
  \/ \E user \in Identities, id \in DepenseIds : reject_depense(user, id)
  \/ \E user \in Identities, id \in DepenseIds : delete_depense(user, id)
  \/ \E user \in Identities, id \in SiteInputs, data \in ChantierUpdate :
       update_chantier(user, id, data)

Spec == Init /\ [][Next]_vars

(***************************************************************************)
(* The pure decision functions applied to arbitrary role and permission    *)
(* strings, unknown ones included                                          *)
(***************************************************************************)
RoleInputs == all_roles \cup {"", "admin", "conducteur"}

PermissionInputs ==
  (UNION {ROLE_PERMISSIONS[r] : r \in DOMAIN ROLE_PERMISSIONS})
    \cup {"approve_depense", "change_role", "delete_chantier"}

check_permission(role, permission) ==
  /\ query' = [role |-> role, permission |-> permission,
               has_permission |-> has_permission(role, permission),
               level |-> get_role_level(role),
               permissions |-> get_role_permissions(role)]
  /\ UNCHANGED <<chantiers, depenses, nextId, last, txn, otherTables>>

NextPerm ==
  \E role \in RoleInputs, permission \in PermissionInputs :
    check_permission(role, permission)

SpecPerm == Init /\ [][NextPerm]_vars

(***************************************************************************)
(* Concurrent approve requests.  Every request runs approve_depense in its *)
(* own AsyncSession (core/database.py, get_db), that is in its own         *)
(* PostgreSQL transaction at READ COMMITTED: a SELECT reads the committed  *)
(* rows, the ORM keeps the row it read as session-local state, the UPDATE  *)
(* of a flush takes the row lock until the commit, and the commit writes   *)
(* the session-local values.                                               *)
(***************************************************************************)
NumTxn == 2          \* concurrent approve requests, and expense rows they target

Txns == 1..NumTxn

Idle ==
  [pc |-> "idle", id |-> 0, status |-> "", montant |-> 0, chantier_id |-> 0,
   budget_consomme |-> 0, code |-> 0]

\* rows en_attente left by earlier create_depense calls of the admin, with
\* positive amounts
InitConc ==
  /\ chantiers = [c \in SiteIds |-> Chantier]
  /\ depenses \in [Txns -> {Depense(m, c, EN_ATTENTE, 1) :
                              m \in {x \in Montants : x > 0}, c \in SiteIds}]
  /\ nextId = NumTxn + 1
  /\ last = NoRequest
  /\ txn = [t \in Txns |-> Idle]
  /\ query = <<>>
  /\ NoOtherRows

\* Depends(require_admin()), then lines 407-414: select(Depense) by id
a_select_depense(t, user, id) ==
  /\ txn[t].pc = "idle"
  /\ IF ~require_admin(user)
       THEN txn' = [txn EXCEPT ![t].pc = "done", ![t].id = id,
                               ![t].code = FORBIDDEN]
       ELSE IF ~Exists(id)
         THEN txn' = [txn EXCEPT ![t].pc = "done", ![t].id = id,
                                 ![t].code = NOT_FOUND]
         ELSE txn' = [txn EXCEPT ![t].pc = "selected", ![t].id = id,
                                 ![t].status = depenses[id].status,
                                 ![t].montant = depenses[id].montant,
                                 ![t].chantier_id = depenses[id].chantier_id]
  /\ UNCHANGED <<chantiers, depenses, nextId, last, query, otherTables>>

\* lines 416-432: the status check on the row read, then status = approuvee
\* on the session's object
a_check_status(t) ==
  /\ txn[t].pc = "selected"
  /\ IF txn[t].status = APPROUVEE \/ txn[t].status = REJETEE
       THEN txn' = [txn EXCEPT ![t].pc = "done", ![t].code = BAD_REQUEST]
       ELSE txn' = [txn EXCEPT ![t].pc = "checked", ![t].status = APPROUVEE]
  /\ UNCHANGED <<chantiers, depenses, nextId, last, query, otherTables>>

\* the transaction that has flushed its UPDATE of row id and not committed
RowLocked(id) ==
  \E u \in Txns : txn[u].pc \in {"flushed", "pending"} /\ txn[u].id = id

\* line 435: db.execute autoflushes the dirty row first (UPDATE depenses),
\* which waits for the row lock
a_flush(t) ==
  /\ txn[t].pc = "checked"
  /\ ~RowLocked(txn[t].id)
  /\ txn' = [txn EXCEPT ![t].pc = "flushed"]
  /\ UNCHANGED <<chantiers, depenses, nextId, last, query, otherTables>>

\* lines 435-440: select(Chantier), then budget_consomme += montant on the
\* session's object
a_select_chantier(t) ==
  /\ txn[t].pc = "flushed"
  /\ txn' = [txn EXCEPT ![t].pc = "pending",
                        ![t].budget_consomme =
                           IF txn[t].chantier_id \in DOMAIN chantiers
                             THEN chantiers[txn[t].chantier_id].budget_consomme
                                    + txn[t].montant
                             ELSE 0]
  /\ UNCHANGED <<chantiers, depenses, nextId, last, query, otherTables>>

\* line 442: UPDATE chantiers SET budget_consomme = <session value>; COMMIT
a_commit(t) ==
  /\ txn[t].pc = "pending"
  /\ depenses' = [depenses EXCEPT ![txn[t].id].status = txn[t].status]
  /\ chantiers' =
       IF txn[t].chantier_id \in DOMAIN chantiers
         THEN [chantiers EXCEPT ![txn[t].chantier_id].budget_consomme =
                 txn[t].budget_consomme]
         ELSE chantiers
  /\ txn' = [txn EXCEPT ![t].pc = "done", ![t].code = OK]
  /\ UNCHANGED <<nextId, last, query, otherTables>>

NextConc ==
  \/ \E t \in Txns, user \in Identities, id \in Txns :
       a_select_depense(t, user, id)
  \/ \E t \in Txns : a_check_status(t)
  \/ \E t \in Txns : a_flush(t)
  \/ \E t \in Txns : a_select_chantier(t)
  \/ \E t \in Txns : a_commit(t)

SpecConc == InitConc /\ [][NextConc]_vars

(***************************************************************************)
(* Site access: has_chantier_access (core/security.py) and the guard       *)
(* require_chantier_access (core/permissions.py) applied to arbitrary      *)
(* identities and site ids                                                 *)
(***************************************************************************)
\* variant: direction is not among the global-access roles of the guard
require_chantier_access_direction_scoped(user, chantier_id) ==
  IF user.role \in {ADMIN_GENERAL, COMPTABLE, MAGASINIER}
    THEN OK
    ELSE IF chantier_id \notin user.chantiers_assignes THEN FORBIDDEN
                                                       ELSE OK

\* the dependency returns the user (OK) or raises 403
require_chantier_access(user, chantier_id) ==
  IF user.role \in {ADMIN_GENERAL, DIRECTION, COMPTABLE, MAGASINIER}
    THEN OK
    ELSE IF chantier_id \notin user.chantiers_assignes THEN FORBIDDEN
                                                       ELSE OK

\* the identities a token can carry: any role string, any assigned list
AccessIdentities ==
  {[user_id |-> 1, role |-> r, chantiers_assignes |-> a] :
     r \in RoleInputs, a \in SUBSET SiteIds}

check_chantier_access(user, chantier_id) ==
  /\ query' = [user |-> user, chantier_id |-> chantier_id,
               has_chantier_access |-> has_chantier_access(user, chantier_id),
               require_chantier_access |->
                 require_chantier_access(user, chantier_id)]
  /\ UNCHANGED <<chantiers, depenses, nextId, last, txn, otherTables>>

NextAccess ==
  \E user \in AccessIdentities, chantier_id \in SiteInputs :
    check_chantier_access(user, chantier_id)

SpecAccess == Init /\ [][NextAccess]_vars

(***************************************************************************)
(* Users and tokens (models/user.py, endpoints/auth.py login)              *)
(***************************************************************************)
INTERNAL_ERROR == 500
UNAUTHORIZED == 401
UNPROCESSABLE == 422

\* models/user.py, the columns the handlers decide on (email is unique)
UserRow(email, role, is_active, chantier_id) ==
  [email |-> email, role |-> role, is_active |-> is_active,
   chantier_id |-> chantier_id]

\* the identity login puts in the token of user row u, as get_current_user
\* rebuilds it; chantier_id 0 stands for NULL
token_data(u, row) ==
  [user_id |-> u, role |-> row.role,
   chantiers_assignes |-> IF row.chantier_id # 0 THEN {row.chantier_id}
                                                 ELSE {}]

\* the identities requests can carry: the tokens that have been issued
Callers == {tokens[u] : u \in {x \in DOMAIN tokens : tokens[x] # None}}

(***************************************************************************)
(* Notifications (endpoints/notifications.py, models/notification.py)      *)
(***************************************************************************)
\* models/materiel.py, the columns the handlers decide on
Materiel(nom, chantier_id, quantite, seuil_alerte) ==
  [nom |-> nom, chantier_id |-> chantier_id, quantite |-> quantite,
   seuil_alerte |-> seuil_alerte]

\* models/notification.py: is_read defaults to False; nom is the material
\* name the message contains ("" when it names none)
Notification(user_id, categorie, nom) ==
  [user_id |-> user_id, is_read |-> FALSE, categorie |-> categorie,
   nom |-> nom]

NotificationCreate == {<<>>} \cup {[user_id |-> u] : u \in 0..(MaxUsers + 1)}

\* an installed system: the admin_general, a direction user and a
\* magasinier, each logged in; one material below its alert threshold
InitNotif ==
  /\ chantiers = [c \in SiteIds |-> Chantier]
  /\ depenses = [d \in DepenseIds |-> None]
  /\ nextId = 1
  /\ last = NoRequest
  /\ txn = <<>>
  /\ query = <<>>
  /\ users = [u \in UserIds |->
               IF u = 1 THEN UserRow(1, ADMIN_GENERAL, TRUE, 0)
               ELSE IF u = 2 THEN UserRow(2, DIRECTION, TRUE, 0)
               ELSE IF u = 3 THEN UserRow(3, MAGASINIER, TRUE, 1)
               ELSE None]
  /\ tokens = [u \in UserIds |->
                IF users[u] # None THEN token_data(u, users[u]) ELSE None]
  /\ notifications = [n \in NotificationIds |-> None]
  /\ documents = [d \in DocumentIds |-> None]
  /\ employes = [e \in EmployeIds |-> None]
  /\ materiels = [m \in MaterielIds |->
                   IF m = 1 THEN Materiel("ciment", 1, 0, 10) ELSE None]
  /\ mouvements = <<>>
  /\ presences = <<>>
  /\ seq = [users |-> MaxUsers + 1, notifications |-> 1, documents |-> 1,
            employes |-> 1, materiels |-> 2]

notifState == <<chantiers, depenseState, users, tokens, documents, employes,
                materiels, mouvements, presences>>

\* POST /notifications/
create_notification_code(user, data) ==
  IF ~require_admin(user) THEN FORBIDDEN
  ELSE IF "user_id" \notin DOMAIN data \/ data.user_id = 0 THEN BAD_REQUEST
  ELSE IF data.user_id \notin DOMAIN users \/ users[data.user_id] = None
    THEN NOT_FOUND
  ELSE OK

create_notification(user, data) ==
  /\ seq.notifications <= MaxNotifications
  /\ LET code == create_notification_code(user, data) IN
     /\ last' = Response("create_notification", user,
                         IF code = OK THEN seq.notifications ELSE 0, code)
     /\ IF code = OK
          THEN /\ notifications' =
                    [notifications EXCEPT ![seq.notifications] =
                       Notification(data.user_id, "general", "")]
               /\ seq' = [seq EXCEPT !.notifications = @ + 1]
          ELSE UNCHANGED <<notifications, seq>>
  /\ UNCHANGED notifState

\* variant: admin_general may mark any notification
mark_as_read_code_admin_any(user, notification_id) ==
  IF ~require_permission(user, "view_notifications") THEN FORBIDDEN
  ELSE IF notification_id \notin DOMAIN notifications
          \/ notifications[notification_id] = None THEN NOT_FOUND
  ELSE IF /\ notifications[notification_id].user_id # user.user_id
          /\ user.role # ADMIN_GENERAL
    THEN FORBIDDEN
  ELSE OK

\* PUT /notifications/{notification_id}/read
mark_as_read_code(user, notification_id) ==
  IF ~require_permission(user, "view_notifications") THEN FORBIDDEN
  ELSE IF notification_id \notin DOMAIN notifications
          \/ notifications[notification_id] = None THEN NOT_FOUND
  ELSE IF notifications[notification_id].user_id # user.user_id
    THEN FORBIDDEN
  ELSE OK

mark_as_read(user, notification_id) ==
  /\ LET code == mark_as_read_code(user, notification_id) IN
     /\ last' = Response("mark_as_read", user, notification_id, code)
     /\ IF code = OK
          THEN notifications' =
                 [notifications EXCEPT ![notification_id].is_read = TRUE]
          ELSE UNCHANGED notifications
  /\ UNCHANGED <<notifState, seq>>

\* DELETE /notifications/{notification_id}
delete_notification_code(user, notification_id) ==
  IF ~require_permission(user, "view_notifications") THEN FORBIDDEN
  ELSE IF notification_id \notin DOMAIN notifications
          \/ notifications[notification_id] = None THEN NOT_FOUND
  ELSE IF notifications[notification_id].user_id # user.user_id
    THEN FORBIDDEN
  ELSE OK

delete_notification(user, notification_id) ==
  /\ LET code == delete_notification_code(user, notification_id) IN
     /\ last' = Response("delete_notification", user, notification_id, code)
     /\ IF code = OK
          THEN notifications' =
                 [notifications EXCEPT ![notification_id] = None]
          ELSE UNCHANGED notifications
  /\ UNCHANGED <<notifState, seq>>

\* PUT /notifications/read-all: the UPDATE names read_at, which is not a
\* column of models/notification.py, so the statement fails to compile and
\* the request ends in the rollback of get_db
mark_all_as_read_code(user) ==
  IF ~require_permission(user, "view_notifications") THEN FORBIDDEN
  ELSE INTERNAL_ERROR

mark_all_as_read(user) ==
  /\ last' = Response("mark_all_as_read", user, 0, mark_all_as_read_code(user))
  /\ UNCHANGED <<notifState, notifications, seq>>

\* DELETE /notifications/clear-read: the router declares
\* DELETE /{notification_id} first, so the path is routed there and
\* "clear-read" fails the int validation of notification_id
clear_read_notifications_code(user) ==
  IF ~require_permission(user, "view_notifications") THEN FORBIDDEN
  ELSE UNPROCESSABLE

clear_read_notifications(user) ==
  /\ last' = Response("clear_read_notifications", user, 0,
                      clear_read_notifications_code(user))
  /\ UNCHANGED <<notifState, notifications, seq>>

\* select(Materiel).where(Materiel.quantite <= Materiel.seuil_alerte)
materiels_bas ==
  {m \in DOMAIN materiels :
     materiels[m] # None /\ materiels[m].quantite <= materiels[m].seuil_alerte}

\* select(User).where(User.role.in_([admin_general, magasinier]), is_active)
users_to_notify ==
  {u \in DOMAIN users :
     /\ users[u] # None
     /\ users[u].role \in {ADMIN_GENERAL, MAGASINIER}
     /\ users[u].is_active}

\* the unread stock notifications of user u whose message contains nom
existing_alerts(table, u, nom) ==
  {n \in DOMAIN table :
     /\ table[n] # None
     /\ table[n].user_id = u
     /\ table[n].categorie = "stock"
     /\ table[n].nom = nom
     /\ ~table[n].is_read}

\* the loop of check_stock_alerts over the (material, user) pairs left to
\* visit, in id order: the table after the loop, or None when
\* scalar_one_or_none() finds several existing alerts
RECURSIVE add_alerts(_, _, _)
add_alerts(pairs, table, next) ==
  IF pairs = {} THEN [table |-> table, next |-> next]
  ELSE LET p == CHOOSE x \in pairs :
                  \A y \in pairs : x[1] < y[1] \/ (x[1] = y[1] /\ x[2] <= y[2])
           found == existing_alerts(table, p[2], materiels[p[1]].nom)
       IN IF Cardinality(found) > 1 THEN None
          ELSE IF found # {} THEN add_alerts(pairs \ {p}, table, next)
          ELSE add_alerts(pairs \ {p},
                 [n \in DOMAIN table \cup {next} |->
                    IF n = next
                      THEN Notification(p[2], "stock", materiels[p[1]].nom)
                      ELSE table[n]],
                 next + 1)

\* POST /notifications/check-stock/
check_stock_alerts_code(user) ==
  IF ~require_permission(user, "view_stock") THEN FORBIDDEN
  ELSE IF add_alerts(materiels_bas \X users_to_notify, notifications,
                     seq.notifications) = None THEN INTERNAL_ERROR
  ELSE OK

check_stock_alerts(user) ==
  /\ LET code == check_stock_alerts_code(user)
         after == add_alerts(materiels_bas \X users_to_notify, notifications,
                             seq.notifications)
     IN
     /\ code = OK => after.next <= MaxNotifications + 1
     /\ last' = Response("check_stock_alerts", user, 0, code)
     /\ IF code = OK
          THEN /\ notifications' = after.table
               /\ seq' = [seq EXCEPT !.notifications = after.next]
          ELSE UNCHANGED <<notifications, seq>>
  /\ UNCHANGED notifState

\* GET /notifications/: the ids of the rows returned (categorie and limit
\* at their defaults)
list_notifications(user, non_lues) ==
  /\ LET code == IF require_permission(user, "view_notifications")
                   THEN OK ELSE FORBIDDEN
     IN query' =
          [user |-> user, code |-> code,
           list_notifications |->
             IF code # OK THEN {}
             ELSE {n \in DOMAIN notifications :
                     /\ notifications[n] # None
                     /\ notifications[n].user_id = user.user_id
                     /\ non_lues => ~notifications[n].is_read}]
  /\ UNCHANGED <<chantiers, depenses, nextId, last, txn, otherTables>>

\* GET /notifications/count
count_non_lues(user) ==
  /\ LET code == IF require_permission(user, "view_notifications")
                   THEN OK ELSE FORBIDDEN
     IN query' =
          [user |-> user, code |-> code,
           count |->
             IF code # OK THEN 0
             ELSE Cardinality({n \in DOMAIN notifications :
                                 /\ notifications[n] # None
                                 /\ notifications[n].user_id = user.user_id
                                 /\ ~notifications[n].is_read})]
  /\ UNCHANGED <<chantiers, depenses, nextId, last, txn, otherTables>>

NextNotif ==
  \/ \E user \in Callers, data \in NotificationCreate :
       create_notification(user, data)
  \/ \E user \in Callers, n \in NotificationIds : mark_as_read(user, n)
  \/ \E user \in Callers, n \in NotificationIds : delete_notification(user, n)
  \/ \E user \in Callers : mark_all_as_read(user)
  \/ \E user \in Callers : clear_read_notifications(user)
  \/ \E user \in Callers : check_stock_alerts(user)
  \/ \E user \in Callers, non_lues \in BOOLEAN :
       list_notifications(user, non_lues)
  \/ \E user \in Callers : count_non_lues(user)

SpecNotif == InitNotif /\ [][NextNotif]_vars

(***************************************************************************)
(* Accounts (endpoints/auth.py).  A user row also carries its email, which *)
(* register and setup-admin keep unique.                                   *)
(***************************************************************************)
VALID_ROLES == all_roles

Emails == 1..MaxUsers

\* the roles a register or role-change request may name
RoleChoices == {ADMIN_GENERAL, COMPTABLE, DIRECTION, "conducteur"}

\* select(User).where(User.role == admin_general)
admin_rows == {u \in DOMAIN users : users[u] # None /\ users[u].role = ADMIN_GENERAL}

\* select(User).where(User.email == email)
email_rows(email) ==
  {u \in DOMAIN users : users[u] # None /\ users[u].email = email}

\* the emails a request may carry: one that is taken, or the first free one
\* (which free address a new account gets makes no difference)
EmailChoices ==
  {e \in Emails :
     email_rows(e) # {} \/ \A f \in Emails : email_rows(f) = {} => e <= f}

\* UserCreate: email, role (default ouvrier), chantier_id (0 is None)
UserCreate ==
  {[email |-> e, role |-> r, chantier_id |-> 0] :
     e \in EmailChoices, r \in RoleChoices}

can_create_user(creator_role, new_user_role) == creator_role = ADMIN_GENERAL

can_change_role(changer_role, new_role) == changer_role = ADMIN_GENERAL

\* a database just created: no user
InitUsers ==
  /\ chantiers = [c \in SiteIds |-> Chantier]
  /\ depenses = [d \in DepenseIds |-> None]
  /\ nextId = 1
  /\ last = NoRequest
  /\ txn = <<>>
  /\ query = <<>>
  /\ NoOtherRows

userState == <<chantiers, depenseState, notifications, documents, employes,
               materiels, mouvements, presences>>

NoCaller == NoRequest.user

\* POST /auth/setup-admin (no authentication)
setup_first_admin_code(data) ==
  IF Cardinality(admin_rows) > 1 THEN INTERNAL_ERROR
  ELSE IF admin_rows # {} THEN FORBIDDEN
  ELSE IF email_rows(data.email) # {} THEN BAD_REQUEST
  ELSE OK

insert_user(row) ==
  /\ users' = [users EXCEPT ![seq.users] = row]
  /\ seq' = [seq EXCEPT !.users = @ + 1]

setup_first_admin(data) ==
  /\ seq.users <= MaxUsers
  /\ LET code == setup_first_admin_code(data) IN
     /\ last' = Response("setup_first_admin", NoCaller,
                         IF code = OK THEN seq.users ELSE 0, code)
     /\ IF code = OK
          THEN insert_user(UserRow(data.email, ADMIN_GENERAL, TRUE, 0))
          ELSE UNCHANGED <<users, seq>>
  /\ UNCHANGED <<userState, tokens>>

\* variant: the check for an existing admin_general is missing
register_code_second_admin(user, data) ==
  IF ~require_admin(user) THEN FORBIDDEN
  ELSE IF ~can_create_user(user.role, data.role) THEN FORBIDDEN
  ELSE IF data.role \notin VALID_ROLES THEN BAD_REQUEST
  ELSE IF email_rows(data.email) # {} THEN BAD_REQUEST
  ELSE OK

\* POST /auth/register
register_code(user, data) ==
  IF ~require_admin(user) THEN FORBIDDEN
  ELSE IF ~can_create_user(user.role, data.role) THEN FORBIDDEN
  ELSE IF data.role = ADMIN_GENERAL /\ Cardinality(admin_rows) > 1
    THEN INTERNAL_ERROR
  ELSE IF data.role = ADMIN_GENERAL /\ admin_rows # {} THEN FORBIDDEN
  ELSE IF data.role \notin VALID_ROLES THEN BAD_REQUEST
  ELSE IF email_rows(data.email) # {} THEN BAD_REQUEST
  ELSE OK

register(user, data) ==
  /\ seq.users <= MaxUsers
  /\ LET code == register_code(user, data) IN
     /\ last' = Response("register", user,
                         IF code = OK THEN seq.users ELSE 0, code)
     /\ IF code = OK
          THEN insert_user(UserRow(data.email, data.role, TRUE,
                                   data.chantier_id))
          ELSE UNCHANGED <<users, seq>>
  /\ UNCHANGED <<userState, tokens>>

\* POST /auth/login with the right password of the account of that email
login_code(email) ==
  IF email_rows(email) = {} THEN UNAUTHORIZED
  ELSE IF ~users[CHOOSE u \in email_rows(email) : TRUE].is_active
    THEN UNAUTHORIZED
  ELSE OK

login(email) ==
  /\ LET code == login_code(email)
         u == IF email_rows(email) = {} THEN 0
              ELSE CHOOSE x \in email_rows(email) : TRUE
     IN
     /\ last' = Response("login", NoCaller, u, code)
     /\ IF code = OK
          THEN tokens' = [tokens EXCEPT ![u] = token_data(u, users[u])]
          ELSE UNCHANGED tokens
  /\ UNCHANGED <<userState, users, seq>>

\* variant: the dependency lets any authenticated caller through
update_user_role_code_any_caller(user, user_id, role) ==
  IF user_id \notin DOMAIN users \/ users[user_id] = None THEN NOT_FOUND
  ELSE IF user_id = user.user_id THEN BAD_REQUEST
  ELSE IF users[user_id].role = ADMIN_GENERAL THEN FORBIDDEN
  ELSE IF role \notin VALID_ROLES THEN BAD_REQUEST
  ELSE IF role = ADMIN_GENERAL THEN FORBIDDEN
  ELSE OK

\* PUT /auth/users/{user_id}/role
update_user_role_code(user, user_id, role) ==
  IF ~require_admin(user) THEN FORBIDDEN
  ELSE IF ~can_change_role(user.role, role) THEN FORBIDDEN
  ELSE IF user_id \notin DOMAIN users \/ users[user_id] = None THEN NOT_FOUND
  ELSE IF user_id = user.user_id THEN BAD_REQUEST
  ELSE IF users[user_id].role = ADMIN_GENERAL THEN FORBIDDEN
  ELSE IF role \notin VALID_ROLES THEN BAD_REQUEST
  ELSE IF role = ADMIN_GENERAL THEN FORBIDDEN
  ELSE OK

\* chantier_id is the optional query parameter: <<>> when absent
update_user_role(user, user_id, role, chantier_id) ==
  /\ LET code == update_user_role_code(user, user_id, role) IN
     /\ last' = Response("update_user_role", user, user_id, code)
     /\ IF code = OK
          THEN users' =
                 [users EXCEPT ![user_id] =
                    [@ EXCEPT !.role = role,
                              !.chantier_id =
                                 IF chantier_id # <<>> THEN chantier_id[1]
                                                       ELSE @]]
          ELSE UNCHANGED users
  /\ UNCHANGED <<userState, tokens, seq>>

\* variant: any existing account can be deactivated
deactivate_user_code_any(user, user_id) ==
  IF ~require_admin(user) THEN FORBIDDEN
  ELSE IF user_id \notin DOMAIN users \/ users[user_id] = None THEN NOT_FOUND
  ELSE OK

\* PUT /auth/users/{user_id}/deactivate
deactivate_user_code(user, user_id) ==
  IF ~require_admin(user) THEN FORBIDDEN
  ELSE IF user_id \notin DOMAIN users \/ users[user_id] = None THEN NOT_FOUND
  ELSE IF user_id = user.user_id THEN BAD_REQUEST
  ELSE IF users[user_id].role = ADMIN_GENERAL THEN FORBIDDEN
  ELSE OK

deactivate_user(user, user_id) ==
  /\ LET code == deactivate_user_code(user, user_id) IN
     /\ last' = Response("deactivate_user", user, user_id, code)
     /\ IF code = OK
          THEN users' = [users EXCEPT ![user_id].is_active = FALSE]
          ELSE UNCHANGED users
  /\ UNCHANGED <<userState, tokens, seq>>

\* PUT /auth/users/{user_id}/activate
activate_user_code(user, user_id) ==
  IF ~require_admin(user) THEN FORBIDDEN
  ELSE IF user_id \notin DOMAIN users \/ users[user_id] = None THEN NOT_FOUND
  ELSE OK

activate_user(user, user_id) ==
  /\ LET code == activate_user_code(user, user_id) IN
     /\ last' = Response("activate_user", user, user_id, code)
     /\ IF code = OK
          THEN users' = [users EXCEPT ![user_id].is_active = TRUE]
          ELSE UNCHANGED users
  /\ UNCHANGED <<userState, tokens, seq>>

UserInputs == 1..(MaxUsers + 1)

NextUsers ==
  \/ \E data \in UserCreate : setup_first_admin(data)
  \/ \E user \in Callers, data \in UserCreate : register(user, data)
  \/ \E email \in EmailChoices : login(email)
  \/ \E user \in Callers, user_id \in UserInputs, role \in RoleChoices,
        chantier_id \in {<<>>, <<1>>} :
       update_user_role(user, user_id, role, chantier_id)
  \/ \E user \in Callers, user_id \in UserInputs : deactivate_user(user, user_id)
  \/ \E user \in Callers, user_id \in UserInputs : activate_user(user, user_id)

SpecUsers == InitUsers /\ [][NextUsers]_vars

(***************************************************************************)
(* Deleting entities (DELETE /chantiers/{id}, /depenses/{id},              *)
(* /employes/{id}, /materiels/{id}, /documents/{document_id})              *)
(***************************************************************************)
\* models/employe.py, the columns the handlers decide on
Employe(chantier_id) ==
  [chantier_id |-> chantier_id, is_active |-> TRUE, salaire_journalier |-> 1]

\* models/document.py, the columns the handlers decide on
Document(chantier_id, type_document, uploaded_by) ==
  [chantier_id |-> chantier_id, type_document |-> type_document,
   uploaded_by |-> uploaded_by]

\* models/materiel.py MouvementStock; sens is the direction the motif of an
\* ajustement names ("augmentation" or "diminution"), "" for the other types
MouvementStock(materiel_id, type_mouvement, quantite, sens) ==
  [materiel_id |-> materiel_id, type_mouvement |-> type_mouvement,
   quantite |-> quantite, sens |-> sens]

\* the roles the second user can hold
OtherRoles == all_roles \ {ADMIN_GENERAL}

\* a populated database: both sites, an expense and an employee on site 1,
\* an empty and a stocked material, a document on each site; the
\* admin_general and a second user of any other role, assigned to site 1,
\* both logged in
InitDelete ==
  /\ chantiers = [c \in SiteIds |-> Chantier]
  /\ depenses = [d \in DepenseIds |-> Depense(1, 1, EN_ATTENTE, 1)]
  /\ nextId = MaxDepenses + 1
  /\ last = NoRequest
  /\ txn = <<>>
  /\ query = <<>>
  /\ \E r \in OtherRoles :
       users = [u \in UserIds |->
                 IF u = 1 THEN UserRow(1, ADMIN_GENERAL, TRUE, 0)
                 ELSE IF u = 2 THEN UserRow(2, r, TRUE, 1)
                 ELSE None]
  /\ tokens = [u \in UserIds |->
                IF users[u] # None THEN token_data(u, users[u]) ELSE None]
  /\ notifications = [n \in NotificationIds |-> None]
  /\ documents = [d \in DocumentIds |->
                   IF d \in SiteIds THEN Document(d, "plan", 1) ELSE None]
  /\ employes = [e \in EmployeIds |-> Employe(1)]
  /\ materiels = [m \in MaterielIds |->
                   IF m = 1 THEN Materiel("ciment", 1, 0, 10)
                   ELSE IF m = 2 THEN Materiel("fer", 2, 1, 10)
                   ELSE None]
  /\ mouvements = <<MouvementStock(2, "entree", 1, "")>>
  /\ presences = <<>>
  /\ seq = [users |-> MaxUsers + 1, notifications |-> 1,
            documents |-> MaxDocuments + 1, employes |-> MaxEmployes + 1,
            materiels |-> MaxMateriels + 1]

\* the rows of table whose chantier_id column is id
rows_of_chantier(table, id) ==
  {x \in DOMAIN table : table[x] # None /\ table[x].chantier_id = id}

\* some row holds a foreign key to chantier id: the DELETE violates it
chantier_referenced(id) ==
  \/ rows_of_chantier(depenses, id) # {}
  \/ rows_of_chantier(users, id) # {}
  \/ rows_of_chantier(employes, id) # {}
  \/ rows_of_chantier(materiels, id) # {}
  \/ rows_of_chantier(documents, id) # {}

\* DELETE /chantiers/{id}
delete_chantier_code(user, id) ==
  IF ~require_admin(user) THEN FORBIDDEN
  ELSE IF id \notin DOMAIN chantiers \/ chantiers[id] = None THEN NOT_FOUND
  ELSE IF chantier_referenced(id) THEN INTERNAL_ERROR
  ELSE OK

delete_chantier(user, id) ==
  /\ LET code == delete_chantier_code(user, id) IN
     /\ last' = Response("delete_chantier", user, id, code)
     /\ IF code = OK
          THEN chantiers' = [chantiers EXCEPT ![id] = None]
          ELSE UNCHANGED chantiers
  /\ UNCHANGED <<depenseState, otherTables>>

\* DELETE /employes/{id}: the row stays, is_active is cleared
delete_employe_code(user, id) ==
  IF ~require_admin(user) THEN FORBIDDEN
  ELSE IF id \notin DOMAIN employes \/ employes[id] = None THEN NOT_FOUND
  ELSE OK

delete_employe(user, id) ==
  /\ LET code == delete_employe_code(user, id) IN
     /\ last' = Response("delete_employe", user, id, code)
     /\ IF code = OK
          THEN employes' = [employes EXCEPT ![id].is_active = FALSE]
          ELSE UNCHANGED employes
  /\ UNCHANGED <<chantiers, depenseState, users, tokens, notifications,
                 documents, materiels, mouvements, presences, seq>>

\* (materiel.quantite or 0); a row without the field holds NULL
quantite_or_0(row) == IF "quantite" \in DOMAIN row THEN row.quantite ELSE 0

\* some movement holds a foreign key to material id
materiel_referenced(id) ==
  \E i \in DOMAIN mouvements : mouvements[i].materiel_id = id

\* DELETE /materiels/{id}
delete_materiel_code(user, id) ==
  IF ~require_admin(user) THEN FORBIDDEN
  ELSE IF id \notin DOMAIN materiels \/ materiels[id] = None THEN NOT_FOUND
  ELSE IF quantite_or_0(materiels[id]) > 0 THEN BAD_REQUEST
  ELSE IF materiel_referenced(id) THEN INTERNAL_ERROR
  ELSE OK

delete_materiel(user, id) ==
  /\ LET code == delete_materiel_code(user, id) IN
     /\ last' = Response("delete_materiel", user, id, code)
     /\ IF code = OK
          THEN materiels' = [materiels EXCEPT ![id] = None]
          ELSE UNCHANGED materiels
  /\ UNCHANGED <<chantiers, depenseState, users, tokens, notifications,
                 documents, employes, mouvements, presences, seq>>

\* variant: the admin_chantier is not held to its assigned sites
delete_document_code_any_site(user, document_id) ==
  IF ~require_permission(user, "delete_document") THEN FORBIDDEN
  ELSE IF user.role = DIRECTION THEN FORBIDDEN
  ELSE IF document_id \notin DOMAIN documents \/ documents[document_id] = None
    THEN NOT_FOUND
  ELSE OK

\* DELETE /documents/{document_id}
delete_document_code(user, document_id) ==
  IF ~require_permission(user, "delete_document") THEN FORBIDDEN
  ELSE IF user.role = DIRECTION THEN FORBIDDEN
  ELSE IF document_id \notin DOMAIN documents \/ documents[document_id] = None
    THEN NOT_FOUND
  ELSE IF /\ user.role = ADMIN_CHANTIER
          /\ ~has_chantier_access(user, documents[document_id].chantier_id)
    THEN FORBIDDEN
  ELSE OK

delete_document(user, document_id) ==
  /\ LET code == delete_document_code(user, document_id) IN
     /\ last' = Response("delete_document", user, document_id, code)
     /\ IF code = OK
          THEN documents' = [documents EXCEPT ![document_id] = None]
          ELSE UNCHANGED documents
  /\ UNCHANGED <<chantiers, depenseState, users, tokens, notifications,
                 employes, materiels, mouvements, presences, seq>>

NextDelete ==
  \/ \E user \in Callers, id \in SiteInputs : delete_chantier(user, id)
  \/ \E user \in Callers, id \in DepenseIds : delete_depense(user, id)
  \/ \E user \in Callers, id \in EmployeIds : delete_employe(user, id)
  \/ \E user \in Callers, id \in MaterielIds : delete_materiel(user, id)
  \/ \E user \in Callers, id \in DocumentIds : delete_document(user, id)

SpecDelete == InitDelete /\ [][NextDelete]_vars

(***************************************************************************)
(* Documents (endpoints/documents.py, models/document.py).  The Document   *)
(* model has no valide_client column: the constructor refuses the keyword, *)
(* an instance loaded from the table has no such attribute, and an         *)
(* assignment to it is a plain Python attribute that no commit writes.     *)
(***************************************************************************)
all_types ==
  {"plan", "devis", "contrat", "rapport", "facture", "bon_livraison",
   "photo", "video", "permis", "autre"}

types_comptable == {"facture", "bon_livraison", "devis", "contrat"}

\* the type_document values a request may carry
TypeInputs == {"plan", "bon_livraison", "tableau"}

\* the columns of models/document.py
DocumentColumns == {"chantier_id", "type_document", "uploaded_by"}

\* a populated database: a document on each site; the admin_general and a
\* second user of any other role, assigned to site 1, both logged in
InitDocs ==
  /\ chantiers = [c \in SiteIds |-> Chantier]
  /\ depenses = [d \in DepenseIds |-> None]
  /\ nextId = 1
  /\ last = NoRequest
  /\ txn = <<>>
  /\ query = <<>>
  /\ \E r \in OtherRoles :
       users = [u \in UserIds |->
                 IF u = 1 THEN UserRow(1, ADMIN_GENERAL, TRUE, 0)
                 ELSE IF u = 2 THEN UserRow(2, r, TRUE, 1)
                 ELSE None]
  /\ tokens = [u \in UserIds |->
                IF users[u] # None THEN token_data(u, users[u]) ELSE None]
  /\ notifications = [n \in NotificationIds |-> None]
  /\ documents = [d \in DocumentIds |->
                   IF d \in SiteIds THEN Document(d, "plan", 1) ELSE None]
  /\ employes = [e \in EmployeIds |-> None]
  /\ materiels = [m \in MaterielIds |-> None]
  /\ mouvements = <<>>
  /\ presences = <<>>
  /\ seq = [users |-> MaxUsers + 1, notifications |-> 1,
            documents |-> MaxDocuments + 1, employes |-> 1, materiels |-> 1]

docState == <<chantiers, depenseState, users, tokens, notifications,
              employes, materiels, mouvements, presences, seq>>

\* Document(**kwargs): a keyword that is not a mapped attribute raises
\* TypeError
constructor_accepts(columns, kwargs) == kwargs \subseteq columns

\* POST /documents/upload/ with a file of an allowed extension and size
upload_document_code(user, chantier_id, type_document) ==
  IF ~require_permission(user, "upload_document") THEN FORBIDDEN
  ELSE IF chantier_id \notin DOMAIN chantiers \/ chantiers[chantier_id] = None
    THEN NOT_FOUND
  ELSE IF user.role # ADMIN_GENERAL /\ ~has_chantier_access(user, chantier_id)
    THEN FORBIDDEN
  ELSE IF user.role = MAGASINIER /\ type_document \notin {"bon_livraison", "photo"}
    THEN FORBIDDEN
  ELSE IF type_document \notin all_types THEN BAD_REQUEST
  ELSE IF ~constructor_accepts(DocumentColumns,
                               {"chantier_id", "type_document", "uploaded_by",
                                "valide_client"})
    THEN INTERNAL_ERROR
  ELSE OK

upload_document(user, chantier_id, type_document) ==
  /\ LET code == upload_document_code(user, chantier_id, type_document) IN
     /\ last' = Response("upload_document", user, chantier_id, code)
     /\ IF code = OK
          THEN documents' =
                 [documents EXCEPT ![seq.documents] =
                    Document(chantier_id, type_document, user.user_id)]
          ELSE UNCHANGED documents
  /\ UNCHANGED docState

\* setattr(row, field, value) followed by commit: only a mapped column is
\* written to the table
commit_attribute(row, field, value) ==
  IF field \in DOMAIN row THEN [row EXCEPT ![field] = value] ELSE row

\* PUT /documents/{document_id}/validate-client and .../unvalidate-client
\* run the same checks
validate_document_for_client_code(user, document_id) ==
  IF ~require_permission(user, "validate_document_client") THEN FORBIDDEN
  ELSE IF document_id \notin DOMAIN documents \/ documents[document_id] = None
    THEN NOT_FOUND
  ELSE IF /\ user.role = ADMIN_CHANTIER
          /\ ~has_chantier_access(user, documents[document_id].chantier_id)
    THEN FORBIDDEN
  ELSE OK

validate_document_for_client(user, document_id) ==
  /\ LET code == validate_document_for_client_code(user, document_id) IN
     /\ last' = Response("validate_document_for_client", user, document_id,
                         code)
     /\ IF code = OK
          THEN documents' =
                 [documents EXCEPT ![document_id] =
                    commit_attribute(@, "valide_client", TRUE)]
          ELSE UNCHANGED documents
  /\ UNCHANGED docState

unvalidate_document_for_client(user, document_id) ==
  /\ LET code == validate_document_for_client_code(user, document_id) IN
     /\ last' = Response("unvalidate_document_for_client", user, document_id,
                         code)
     /\ IF code = OK
          THEN documents' =
                 [documents EXCEPT ![document_id] =
                    commit_attribute(@, "valide_client", FALSE)]
          ELSE UNCHANGED documents
  /\ UNCHANGED docState

\* GET /documents/download/{document_id}, the file being on the server
\* variant: a client is served like direction, without the validation check
download_document_code_client_any(user, document_id) ==
  IF ~require_permission(user, "download_document") THEN FORBIDDEN
  ELSE IF document_id \notin DOMAIN documents \/ documents[document_id] = None
    THEN NOT_FOUND
  ELSE IF /\ user.role \notin {ADMIN_GENERAL, DIRECTION, CLIENT}
          /\ user.role = COMPTABLE
          /\ documents[document_id].type_document \notin types_comptable
    THEN FORBIDDEN
  ELSE IF /\ user.role \notin {ADMIN_GENERAL, DIRECTION, CLIENT, COMPTABLE}
          /\ ~has_chantier_access(user, documents[document_id].chantier_id)
    THEN FORBIDDEN
  ELSE OK

download_document_code(user, document_id) ==
  IF ~require_permission(user, "download_document") THEN FORBIDDEN
  ELSE IF document_id \notin DOMAIN documents \/ documents[document_id] = None
    THEN NOT_FOUND
  ELSE IF user.role = CLIENT /\ "valide_client" \notin DOMAIN documents[document_id]
    THEN INTERNAL_ERROR
  ELSE IF user.role = CLIENT /\ ~documents[document_id].valide_client
    THEN FORBIDDEN
  ELSE IF /\ user.role \notin {ADMIN_GENERAL, DIRECTION, CLIENT}
          /\ user.role = COMPTABLE
          /\ documents[document_id].type_document \notin types_comptable
    THEN FORBIDDEN
  ELSE IF /\ user.role \notin {ADMIN_GENERAL, DIRECTION, CLIENT, COMPTABLE}
          /\ ~has_chantier_access(user, documents[document_id].chantier_id)
    THEN FORBIDDEN
  ELSE OK

download_document(user, document_id) ==
  /\ last' = Response("download_document", user, document_id,
                      download_document_code(user, document_id))
  /\ UNCHANGED <<documents, docState>>

\* GET /documents/client/validated?chantier_id=...: the query names the
\* class attribute Document.valide_client
list_client_validated_documents_code(user) ==
  IF ~require_permission(user, "view_documents_valides") THEN FORBIDDEN
  ELSE IF "valide_client" \notin DocumentColumns THEN INTERNAL_ERROR
  ELSE OK

list_client_validated_documents(user, chantier_id) ==
  /\ LET code == list_client_validated_documents_code(user) IN
     /\ last' = Response("list_client_validated_documents", user, chantier_id,
                         code)
     /\ query' =
          IF code = OK
            THEN {d \in DocumentIds :
                    /\ documents[d] # None
                    /\ documents[d].chantier_id = chantier_id
                    /\ documents[d].valide_client}
            ELSE <<>>
  /\ UNCHANGED <<chantiers, depenses, nextId, txn, documents, otherTables>>

\* d.get(key, default) of a Python dict
dict_get(d, key, default) == IF key \in DOMAIN d THEN d[key] ELSE default

filter_documents_client_all(user, docs) == docs

\* DataFilter.filter_documents, the list taken as the set of its dicts
filter_documents(user, docs) ==
  IF user.role = CLIENT
    THEN {d \in docs : dict_get(d, "valide_client", FALSE)}
  ELSE IF user.role = COMPTABLE
    THEN {d \in docs : dict_get(d, "type", "") \in types_comptable}
  ELSE docs

\* the dicts a list may hold: valide_client true, false or missing, with
\* or without a type
DocumentDicts ==
  {[id |-> 1, type |-> "facture", valide_client |-> TRUE],
   [id |-> 2, type |-> "facture", valide_client |-> FALSE],
   [id |-> 3, type |-> "plan"],
   [id |-> 4, valide_client |-> TRUE]}

DocumentLists == SUBSET DocumentDicts

apply_filter_documents(user, docs) ==
  /\ query' = [user |-> user, documents |-> docs,
               filter_documents |-> filter_documents(user, docs)]
  /\ UNCHANGED <<chantiers, depenses, nextId, last, txn, otherTables>>

NextDocs ==
  \/ \E user \in Callers, chantier_id \in SiteInputs, t \in TypeInputs :
       upload_document(user, chantier_id, t)
  \/ \E user \in Callers, id \in 1..(MaxDocuments + 1) :
       validate_document_for_client(user, id)
  \/ \E user \in Callers, id \in 1..(MaxDocuments + 1) :
       unvalidate_document_for_client(user, id)
  \/ \E user \in Callers, id \in 1..(MaxDocuments + 1) :
       download_document(user, id)
  \/ \E user \in Callers, chantier_id \in SiteInputs :
       list_client_validated_documents(user, chantier_id)
  \/ \E user \in Callers, docs \in DocumentLists :
       apply_filter_documents(user, docs)

SpecDocs == InitDocs /\ [][NextDocs]_vars

(***************************************************************************)
(* Stock (endpoints/materiels.py, models/materiel.py).  The tables hold    *)
(* what is committed; a NULL quantite is a row without the quantite field. *)
(***************************************************************************)
\* the columns of models/materiel.py Materiel
MaterielColumns ==
  {"nom", "categorie", "unite", "quantite", "seuil_alerte", "prix_unitaire",
   "chantier_id"}

\* the quantite values a movement or a reception may carry, and those of a
\* transfer (the larger exceeds the seeded balances)
Quantites == {1}

TransfertQuantites == {1, 3}

\* a populated database: ciment on site 1, ciment or fer on site 2, each
\* with the entree that brought its stock; the admin_general and a
\* chef_chantier assigned to site 1, both logged in
InitStock ==
  /\ chantiers = [c \in SiteIds |-> Chantier]
  /\ depenses = [d \in DepenseIds |-> None]
  /\ nextId = 1
  /\ last = NoRequest
  /\ txn = <<>>
  /\ query = <<>>
  /\ users = [u \in UserIds |->
                IF u = 1 THEN UserRow(1, ADMIN_GENERAL, TRUE, 0)
                ELSE IF u = 2 THEN UserRow(2, CHEF_CHANTIER, TRUE, 1)
                ELSE None]
  /\ tokens = [u \in UserIds |->
                IF users[u] # None THEN token_data(u, users[u]) ELSE None]
  /\ notifications = [n \in NotificationIds |-> None]
  /\ documents = [d \in DocumentIds |-> None]
  /\ employes = [e \in EmployeIds |-> None]
  /\ \E nom \in {"ciment", "fer"} :
       materiels = [m \in MaterielIds |->
                     IF m = 1 THEN Materiel("ciment", 1, 2, 10)
                     ELSE IF m = 2 THEN Materiel(nom, 2, 1, 10)
                     ELSE None]
  /\ mouvements = <<MouvementStock(1, "entree", 2, ""),
                    MouvementStock(2, "entree", 1, "")>>
  /\ presences = <<>>
  /\ seq = [users |-> MaxUsers + 1, notifications |-> 1, documents |-> 1,
            employes |-> 1, materiels |-> 3]

stockRest == <<chantiers, depenses, nextId, query, users, tokens,
               notifications, documents, employes, presences>>

MaterielCreate ==
  [nom : {"ciment"}, chantier_id : SiteInputs, quantite : {0, 1}]

\* POST /materiels/
create_materiel_code(user, data) ==
  IF ~require_permission(user, "create_stock") THEN FORBIDDEN
  ELSE IF user.role = CHEF_CHANTIER /\ ~has_chantier_access(user, data.chantier_id)
    THEN FORBIDDEN
  ELSE IF data.chantier_id \notin DOMAIN chantiers
            \/ chantiers[data.chantier_id] = None
    THEN NOT_FOUND
  ELSE IF ~constructor_accepts(MaterielColumns,
                               {"nom", "categorie", "unite", "quantite",
                                "seuil_alerte", "prix_unitaire", "chantier_id",
                                "created_by"})
    THEN INTERNAL_ERROR
  ELSE OK

create_materiel(user, data) ==
  /\ LET code == create_materiel_code(user, data) IN
     /\ last' = Response("create_materiel", user, data.chantier_id, code)
     /\ IF code = OK
          THEN /\ seq.materiels \in MaterielIds
               /\ materiels' =
                    [materiels EXCEPT ![seq.materiels] =
                       Materiel(data.nom, data.chantier_id, data.quantite, 10)]
               /\ mouvements' =
                    IF data.quantite > 0
                      THEN Append(mouvements,
                                  MouvementStock(seq.materiels, "entree",
                                                 data.quantite, ""))
                      ELSE mouvements
               /\ seq' = [seq EXCEPT !.materiels = @ + 1]
          ELSE UNCHANGED <<materiels, mouvements, seq>>
  /\ Len(mouvements') <= MaxMouvements
  /\ UNCHANGED <<stockRest, txn>>

\* the bodies of PUT /materiels/{id}: a field is absent, null (<<>>) or a
\* value (<<v>>)
MaterielUpdate ==
  {<<>>, [quantite |-> <<>>]}
    \cup {[quantite |-> <<n>>] : n \in {0, 2}}

is_set(data, field) == field \in DOMAIN data /\ data[field] # <<>>

\* abs(difference)
abs(n) == IF n < 0 THEN 0 - n ELSE n

\* the row after the setattr loop over model_dump(exclude_unset=True)
update_materiel_row(row, data) ==
  LET dropped == {f \in DOMAIN data : data[f] = <<>>}
  IN  [f \in DOMAIN row \ dropped |->
         IF f \in DOMAIN data THEN data[f][1] ELSE row[f]]

\* the ledger after the handler: an ajustement when the quantity changes
update_materiel_mouvements(id, row, data) ==
  IF is_set(data, "quantite") /\ data.quantite[1] # row.quantite
    THEN Append(mouvements,
                MouvementStock(id, "ajustement",
                               abs(data.quantite[1] - row.quantite),
                               IF data.quantite[1] - row.quantite > 0
                                 THEN "augmentation" ELSE "diminution"))
    ELSE mouvements

\* the status before the commit: OK when the handler reaches it
update_materiel_check(user, id, data) ==
  IF ~require_permission(user, "edit_stock") THEN FORBIDDEN
  ELSE IF id \notin DOMAIN materiels \/ materiels[id] = None THEN NOT_FOUND
  ELSE IF user.role = CHEF_CHANTIER
            /\ ~has_chantier_access(user, materiels[id].chantier_id)
    THEN FORBIDDEN
  ELSE IF is_set(data, "quantite") /\ "quantite" \notin DOMAIN materiels[id]
    THEN INTERNAL_ERROR
  ELSE IF is_set(data, "chantier_id")
            /\ (data.chantier_id[1] \notin DOMAIN chantiers
                  \/ chantiers[data.chantier_id[1]] = None)
    THEN INTERNAL_ERROR
  ELSE OK

\* PUT /materiels/{id}: after the commit the row is serialised as a
\* MaterielResponse, whose quantite is a float
update_materiel_code(user, id, data) ==
  IF update_materiel_check(user, id, data) # OK
    THEN update_materiel_check(user, id, data)
  ELSE IF "quantite" \notin DOMAIN update_materiel_row(materiels[id], data)
    THEN INTERNAL_ERROR
  ELSE OK

update_materiel(user, id, data) ==
  /\ last' = Response("update_materiel", user, id,
                      update_materiel_code(user, id, data))
  /\ IF update_materiel_check(user, id, data) = OK
       THEN /\ mouvements' =
                 update_materiel_mouvements(id, materiels[id], data)
            /\ materiels' =
                 [materiels EXCEPT ![id] = update_materiel_row(@, data)]
       ELSE UNCHANGED <<materiels, mouvements>>
  /\ Len(mouvements') <= MaxMouvements
  /\ UNCHANGED <<stockRest, txn, seq>>

MouvementCreate ==
  [materiel_id : 1..(MaxMateriels + 1),
   type_mouvement : {"entree", "sortie", "ajustement"},
   quantite : Quantites]

\* variant: a sortie is not compared with the stock
create_mouvement_code_unguarded(user, data) ==
  IF ~require_permission(user, "mouvement_stock") THEN FORBIDDEN
  ELSE IF data.materiel_id \notin DOMAIN materiels
            \/ materiels[data.materiel_id] = None
    THEN NOT_FOUND
  ELSE IF user.role = CHEF_CHANTIER
            /\ ~has_chantier_access(user,
                                    materiels[data.materiel_id].chantier_id)
    THEN FORBIDDEN
  ELSE IF data.type_mouvement \notin {"entree", "sortie"} THEN BAD_REQUEST
  ELSE IF data.type_mouvement = "sortie"
            /\ "quantite" \notin DOMAIN materiels[data.materiel_id]
    THEN INTERNAL_ERROR
  ELSE OK

\* POST /materiels/mouvements/
create_mouvement_code(user, data) ==
  IF ~require_permission(user, "mouvement_stock") THEN FORBIDDEN
  ELSE IF data.materiel_id \notin DOMAIN materiels
            \/ materiels[data.materiel_id] = None
    THEN NOT_FOUND
  ELSE IF user.role = CHEF_CHANTIER
            /\ ~has_chantier_access(user,
                                    materiels[data.materiel_id].chantier_id)
    THEN FORBIDDEN
  ELSE IF data.type_mouvement \notin {"entree", "sortie"} THEN BAD_REQUEST
  ELSE IF data.type_mouvement = "sortie"
            /\ quantite_or_0(materiels[data.materiel_id]) < data.quantite
    THEN BAD_REQUEST
  ELSE IF data.type_mouvement = "sortie"
            /\ "quantite" \notin DOMAIN materiels[data.materiel_id]
    THEN INTERNAL_ERROR
  ELSE OK

\* row with its quantite column set
with_quantite(row, quantite) ==
  [f \in DOMAIN row \cup {"quantite"} |->
     IF f = "quantite" THEN quantite ELSE row[f]]

create_mouvement(user, data) ==
  /\ LET code == create_mouvement_code(user, data)
         row  == materiels[data.materiel_id]
     IN
     /\ last' = Response("create_mouvement", user, data.materiel_id, code)
     /\ IF code = OK
          THEN /\ materiels' =
                    [materiels EXCEPT ![data.materiel_id] =
                       with_quantite(row,
                         IF data.type_mouvement = "entree"
                           THEN quantite_or_0(row) + data.quantite
                           ELSE row.quantite - data.quantite)]
               /\ mouvements' =
                    Append(mouvements,
                           MouvementStock(data.materiel_id, data.type_mouvement,
                                          data.quantite, ""))
          ELSE UNCHANGED <<materiels, mouvements>>
  /\ Len(mouvements') <= MaxMouvements
  /\ UNCHANGED <<stockRest, txn, seq>>

ReceptionRequest ==
  [materiel_id : 1..(MaxMateriels + 1), quantite : Quantites]

\* POST /materiels/reception/
recevoir_materiel_code(user, data) ==
  IF ~require_permission(user, "receive_materiel") THEN FORBIDDEN
  ELSE IF data.materiel_id \notin DOMAIN materiels
            \/ materiels[data.materiel_id] = None
    THEN NOT_FOUND
  ELSE OK

recevoir_materiel(user, data) ==
  /\ LET code == recevoir_materiel_code(user, data)
         row  == materiels[data.materiel_id]
     IN
     /\ last' = Response("recevoir_materiel", user, data.materiel_id, code)
     /\ IF code = OK
          THEN /\ materiels' =
                    [materiels EXCEPT ![data.materiel_id] =
                       with_quantite(row, quantite_or_0(row) + data.quantite)]
               /\ mouvements' =
                    Append(mouvements,
                           MouvementStock(data.materiel_id, "reception",
                                          data.quantite, ""))
          ELSE UNCHANGED <<materiels, mouvements>>
  /\ Len(mouvements') <= MaxMouvements
  /\ UNCHANGED <<stockRest, txn, seq>>

TransfertRequest ==
  [materiel_id : 1..(MaxMateriels + 1), quantite : TransfertQuantites,
   chantier_source_id : SiteInputs, chantier_destination_id : SiteInputs]

\* select(Materiel).where(nom == ..., chantier_id == ...)
materiels_named(table, nom, chantier_id) ==
  {m \in DOMAIN table :
     /\ table[m] # None
     /\ table[m].nom = nom
     /\ table[m].chantier_id = chantier_id}

\* Materiel(description=materiel_source.description, ..., created_by=...):
\* reading an attribute the source row does not have raises AttributeError
reads_column(columns, attribute) == attribute \in columns

\* POST /materiels/transfert/ up to its first commit
transferer_materiel_code(user, data) ==
  IF ~require_permission(user, "transfer_stock") THEN FORBIDDEN
  ELSE IF data.chantier_source_id \notin DOMAIN chantiers
            \/ chantiers[data.chantier_source_id] = None
    THEN NOT_FOUND
  ELSE IF data.chantier_destination_id \notin DOMAIN chantiers
            \/ chantiers[data.chantier_destination_id] = None
    THEN NOT_FOUND
  ELSE IF \/ data.materiel_id \notin DOMAIN materiels
          \/ materiels[data.materiel_id] = None
          \/ materiels[data.materiel_id].chantier_id # data.chantier_source_id
    THEN NOT_FOUND
  ELSE IF quantite_or_0(materiels[data.materiel_id]) < data.quantite
    THEN BAD_REQUEST
  ELSE IF "quantite" \notin DOMAIN materiels[data.materiel_id]
    THEN INTERNAL_ERROR
  ELSE IF Cardinality(materiels_named(materiels,
                                      materiels[data.materiel_id].nom,
                                      data.chantier_destination_id)) > 1
    THEN INTERNAL_ERROR
  ELSE IF /\ materiels_named(materiels, materiels[data.materiel_id].nom,
                             data.chantier_destination_id) = {}
          /\ ~reads_column(MaterielColumns, "description")
    THEN INTERNAL_ERROR
  ELSE OK

\* the materiels table of the first commit: the source debited, then the
\* destination row of the same name credited
transferer_materiel_materiels(table, data) ==
  LET source == data.materiel_id
      dest   == CHOOSE m \in materiels_named(table, table[source].nom,
                                             data.chantier_destination_id) :
                  TRUE
      debited == [table EXCEPT ![source] =
                    with_quantite(@, @.quantite - data.quantite)]
  IN  [debited EXCEPT ![dest] =
         with_quantite(@, quantite_or_0(@) + data.quantite)]

\* the request is answered when it is refused; otherwise its first commit
\* stores both balances and the transfert_sortant movement, and the request
\* goes on (txn) to its second commit
transferer_materiel(user, data) ==
  /\ txn = <<>>
  /\ LET code == transferer_materiel_code(user, data) IN
     IF code # OK
       THEN /\ last' = Response("transferer_materiel", user,
                                data.materiel_id, code)
            /\ UNCHANGED <<materiels, mouvements, txn>>
       ELSE /\ Len(mouvements) + 2 <= MaxMouvements
            /\ materiels' = transferer_materiel_materiels(materiels, data)
            /\ mouvements' =
                 Append(mouvements,
                        MouvementStock(data.materiel_id, "transfert_sortant",
                                       data.quantite, ""))
            /\ txn' =
                 [user |-> user, data |-> data,
                  materiel_dest |->
                    CHOOSE m \in materiels_named(
                                   materiels, materiels[data.materiel_id].nom,
                                   data.chantier_destination_id) : TRUE]
            /\ UNCHANGED last
  /\ UNCHANGED <<stockRest, seq>>

\* the rest of the request: refresh(materiel_dest), the transfert_entrant
\* movement and the second commit
transferer_materiel_commit ==
  /\ txn # <<>>
  /\ mouvements' =
       Append(mouvements,
              MouvementStock(txn.materiel_dest, "transfert_entrant",
                             txn.data.quantite, ""))
  /\ last' = Response("transferer_materiel", txn.user, txn.data.materiel_id,
                      OK)
  /\ txn' = <<>>
  /\ UNCHANGED <<materiels, stockRest, seq>>

NextStock ==
  \/ \E user \in Callers, data \in MaterielCreate :
       create_materiel(user, data)
  \/ \E user \in Callers, id \in 1..(MaxMateriels + 1),
        data \in MaterielUpdate :
       update_materiel(user, id, data)
  \/ \E user \in Callers, data \in MouvementCreate :
       create_mouvement(user, data)
  \/ \E user \in Callers, data \in ReceptionRequest :
       recevoir_materiel(user, data)
  \/ \E user \in Callers, data \in TransfertRequest :
       transferer_materiel(user, data)
  \/ transferer_materiel_commit

SpecStock == InitStock /\ [][NextStock]_vars

\* the stock requests that move a balance without a transfer
NextSortie ==
  \/ \E user \in Callers, id \in 1..(MaxMateriels + 1),
        data \in MaterielUpdate :
       update_materiel(user, id, data)
  \/ \E user \in Callers, data \in MouvementCreate :
       create_mouvement(user, data)

SpecSortie == InitStock /\ [][NextSortie]_vars

(***************************************************************************)
(* Concurrent sortie requests.  Every request runs create_mouvement in its *)
(* own session and transaction: the SELECT reads the committed row, the    *)
(* stock check and quantite -= q work on the session's copy, and the       *)
(* commit writes that copy's quantite and inserts the movement.  No row is *)
(* locked before the commit.                                               *)
(***************************************************************************)
\* the seeded stock of InitStock, every request idle
InitSortieConc ==
  /\ chantiers = [c \in SiteIds |-> Chantier]
  /\ depenses = [d \in DepenseIds |-> None]
  /\ nextId = 1
  /\ last = NoRequest
  /\ txn = [t \in Txns |-> [pc |-> "idle", id |-> 0, quantite |-> 0,
                            local |-> 0, code |-> 0]]
  /\ query = <<>>
  /\ users = [u \in UserIds |->
                IF u = 1 THEN UserRow(1, ADMIN_GENERAL, TRUE, 0)
                ELSE IF u = 2 THEN UserRow(2, CHEF_CHANTIER, TRUE, 1)
                ELSE None]
  /\ tokens = [u \in UserIds |->
                IF users[u] # None THEN token_data(u, users[u]) ELSE None]
  /\ notifications = [n \in NotificationIds |-> None]
  /\ documents = [d \in DocumentIds |-> None]
  /\ employes = [e \in EmployeIds |-> None]
  /\ materiels = [m \in MaterielIds |->
                   IF m = 1 THEN Materiel("ciment", 1, 2, 10)
                   ELSE IF m = 2 THEN Materiel("fer", 2, 1, 10)
                   ELSE None]
  /\ mouvements = <<MouvementStock(1, "entree", 2, ""),
                    MouvementStock(2, "entree", 1, "")>>
  /\ presences = <<>>
  /\ seq = [users |-> MaxUsers + 1, notifications |-> 1, documents |-> 1,
            employes |-> 1, materiels |-> 3]

\* lines 385-433: the dependency, select(Materiel) by id, the checks and
\* quantite -= q on the row the session read
b_select_materiel(t, user, data) ==
  /\ txn[t].pc = "idle"
  /\ LET code == create_mouvement_code(user, data) IN
     txn' = [txn EXCEPT ![t] =
               IF code # OK
                 THEN [@ EXCEPT !.pc = "done", !.id = data.materiel_id,
                                !.code = code]
                 ELSE [@ EXCEPT !.pc = "pending", !.id = data.materiel_id,
                                !.quantite = data.quantite,
                                !.local = materiels[data.materiel_id].quantite
                                            - data.quantite]]
  /\ UNCHANGED <<materiels, mouvements, last, seq, stockRest>>

\* lines 435-449: INSERT the movement, UPDATE materiels SET quantite =
\* <session value>, COMMIT
b_commit(t) ==
  /\ txn[t].pc = "pending"
  /\ materiels' = [materiels EXCEPT ![txn[t].id].quantite = txn[t].local]
  /\ mouvements' =
       Append(mouvements,
              MouvementStock(txn[t].id, "sortie", txn[t].quantite, ""))
  /\ txn' = [txn EXCEPT ![t].pc = "done", ![t].code = OK]
  /\ UNCHANGED <<last, seq, stockRest>>

NextSortieConc ==
  \/ \E t \in Txns, user \in Callers, id \in 1..(MaxMateriels + 1),
        q \in Quantites \cup {2} :
       b_select_materiel(t, user, [materiel_id |-> id,
                                   type_mouvement |-> "sortie",
                                   quantite |-> q])
  \/ \E t \in Txns : b_commit(t)

SpecSortieConc == InitSortieConc /\ [][NextSortieConc]_vars

(***************************************************************************)
(* Site lists: DataFilter.filter_chantiers (core/permissions.py) and       *)
(* GET /chantiers/ (endpoints/chantiers.py).  A list is taken as the set   *)
(* of its elements; c.get("client_id") of a dict without the key, and      *)
(* getattr(c, 'client_id', None) of a Chantier row, which has no such      *)
(* column, are None and equal no user_id.                                  *)
(***************************************************************************)
\* variant: a client is scoped like the other roles
filter_chantiers_client_assigned(user, chantiers_list) ==
  IF user.role \in {ADMIN_GENERAL, DIRECTION, COMPTABLE, MAGASINIER}
    THEN chantiers_list
  ELSE {c \in chantiers_list : c.id \in user.chantiers_assignes}

filter_chantiers(user, chantiers_list) ==
  IF user.role \in {ADMIN_GENERAL, DIRECTION, COMPTABLE, MAGASINIER}
    THEN chantiers_list
  ELSE IF user.role = CLIENT
    THEN {c \in chantiers_list :
            "client_id" \in DOMAIN c /\ c.client_id = user.user_id}
  ELSE {c \in chantiers_list : c.id \in user.chantiers_assignes}

apply_filter_chantiers(user, chantiers_list) ==
  /\ query' = [user |-> user, chantiers |-> chantiers_list,
               filter_chantiers |-> filter_chantiers(user, chantiers_list)]
  /\ UNCHANGED <<chantiers, depenses, nextId, last, txn, otherTables>>

\* GET /chantiers/: the status and the ids of the rows returned
list_chantiers(user) ==
  /\ LET rows == {c \in DOMAIN chantiers : chantiers[c] # None}
         code == IF require_permission(user, "view_chantiers")
                   THEN OK ELSE FORBIDDEN
     IN
     query' =
          [user |-> user, code |-> code,
           list_chantiers |->
             IF code # OK THEN {}
             ELSE IF user.role \in {ADMIN_GENERAL, DIRECTION, COMPTABLE,
                                    MAGASINIER}
               THEN rows
             ELSE IF user.role = CLIENT
               THEN {c \in rows : "client_id" \in DOMAIN chantiers[c]
                                    /\ chantiers[c].client_id = user.user_id}
             ELSE {c \in rows : c \in user.chantiers_assignes}]
  /\ UNCHANGED <<chantiers, depenses, nextId, last, txn, otherTables>>

NextSites ==
  \/ \E user \in AccessIdentities,
        chantiers_list \in SUBSET ({[id |-> c, client_id |-> c] : c \in SiteIds}
                                     \cup [id : SiteIds]) :
       apply_filter_chantiers(user, chantiers_list)
  \/ \E user \in AccessIdentities : list_chantiers(user)

SpecSites == Init /\ [][NextSites]_vars

(***************************************************************************)
(* Employees: DataFilter.filter_employes (core/permissions.py) and the     *)
(* read endpoints of api/v1/endpoints/employes.py. Of an employee the      *)
(* model keeps id, chantier_id, is_active and salaire_journalier.          *)
(***************************************************************************)
Dates == {"2024-01-01", "2024-01-02"}

Presence(employe_id, chantier_id, date, status) ==
  [employe_id |-> employe_id, chantier_id |-> chantier_id, date |-> date,
   status |-> status, heures_travaillees |-> 8]

InitEmployes ==
  /\ chantiers = [c \in SiteIds |-> Chantier]
  /\ depenses = [d \in DepenseIds |-> None]
  /\ nextId = 1
  /\ last = NoRequest
  /\ txn = <<>>
  /\ query = <<>>
  /\ users = [u \in UserIds |-> None]
  /\ tokens = [u \in UserIds |-> None]
  /\ notifications = [n \in NotificationIds |-> None]
  /\ documents = [d \in DocumentIds |-> None]
  /\ employes \in [EmployeIds -> {Employe(c) : c \in SiteIds}]
  /\ materiels = [m \in MaterielIds |-> None]
  /\ mouvements = <<>>
  /\ presences \in {<<>>, <<Presence(1, 1, "2024-01-01", "present")>>}
  /\ seq = [users |-> 1, notifications |-> 1, documents |-> 1,
            employes |-> MaxEmployes + 1, materiels |-> 1]

\* dict.pop(key, None) for each key
pop(d, keys) == [k \in DOMAIN d \ keys |-> d[k]]

\* variant: the bank details stay in the record
filter_employes_keep_bancaire(user, employes_list) ==
  IF has_permission(user.role, "view_salaires") THEN employes_list
  ELSE {pop(emp, {"salaire", "salaire_journalier"}) : emp \in employes_list}

filter_employes(user, employes_list) ==
  IF has_permission(user.role, "view_salaires") THEN employes_list
  ELSE {pop(emp, {"salaire", "salaire_journalier", "info_bancaire"}) :
          emp \in employes_list}

apply_filter_employes(user, employes_list) ==
  /\ query' = [user |-> user, employes |-> employes_list,
               filter_employes |-> filter_employes(user, employes_list)]
  /\ UNCHANGED <<chantiers, depenses, nextId, last, txn, otherTables>>

\* the fields EmployeResponse requires, of those the model keeps
EmployeResponse == {"id", "chantier_id", "is_active", "salaire_journalier"}

\* what the handler returns for row e: the row to a holder of view_salaires,
\* a dict without the salary to the others
employe_returned(user, e) ==
  IF has_permission(user.role, "view_salaires")
    THEN [id |-> e, chantier_id |-> employes[e].chantier_id,
          is_active |-> employes[e].is_active,
          salaire_journalier |-> employes[e].salaire_journalier]
    ELSE [id |-> e, chantier_id |-> employes[e].chantier_id,
          is_active |-> employes[e].is_active]

\* GET /employes/: chantier_id is <<>> (no query parameter) or <<c>>; a
\* returned value that fails response_model validation is a 500
list_employes(user, chantier_id) ==
  /\ LET rows ==
           {e \in DOMAIN employes :
              /\ employes[e] # None
              /\ employes[e].is_active
              /\ user.role \in {ADMIN_CHANTIER, CHEF_CHANTIER} =>
                   IF user.chantiers_assignes # {}
                     THEN employes[e].chantier_id \in user.chantiers_assignes
                   ELSE IF "chantier_id" \in DOMAIN user
                     THEN employes[e].chantier_id = user.chantier_id
                   ELSE TRUE
              /\ chantier_id # <<>> => employes[e].chantier_id = chantier_id[1]}
         returned == {employe_returned(user, e) : e \in rows}
         code ==
           IF ~require_permission(user, "view_employes") THEN FORBIDDEN
           ELSE IF /\ chantier_id # <<>>
                   /\ user.role \notin {ADMIN_GENERAL, COMPTABLE, DIRECTION}
                   /\ ~has_chantier_access(user, chantier_id[1])
             THEN FORBIDDEN
           ELSE IF \E r \in returned : ~(EmployeResponse \subseteq DOMAIN r)
             THEN INTERNAL_ERROR
           ELSE OK
     IN query' = [user |-> user, code |-> code,
                  list_employes |-> IF code = OK THEN returned ELSE {}]
  /\ UNCHANGED <<chantiers, depenses, nextId, last, txn, otherTables>>

\* GET /employes/{id}
get_employe(user, id) ==
  /\ LET code ==
           IF ~require_permission(user, "view_employes") THEN FORBIDDEN
           ELSE IF id \notin DOMAIN employes \/ employes[id] = None
             THEN NOT_FOUND
           ELSE IF /\ user.role \notin {ADMIN_GENERAL, COMPTABLE, DIRECTION}
                   /\ ~has_chantier_access(user, employes[id].chantier_id)
             THEN FORBIDDEN
           ELSE IF ~(EmployeResponse
                       \subseteq DOMAIN employe_returned(user, id))
             THEN INTERNAL_ERROR
           ELSE OK
     IN query' = [user |-> user, code |-> code,
                  get_employe |-> IF code = OK
                                    THEN {employe_returned(user, id)}
                                    ELSE {}]
  /\ UNCHANGED <<chantiers, depenses, nextId, last, txn, otherTables>>

\* GET /employes/pointage/{chantier_id}/{date_pointage}: scalar_one_or_none
\* raises when two presence rows match
get_pointage_jour(user, chantier_id, date_pointage) ==
  /\ LET rows == {e \in DOMAIN employes :
                    /\ employes[e] # None
                    /\ employes[e].chantier_id = chantier_id
                    /\ employes[e].is_active}
         found(e) == {i \in DOMAIN presences :
                        /\ presences[i].employe_id = e
                        /\ presences[i].date = date_pointage}
         emp_data(e) ==
           LET d == [employe_id |-> e,
                     status |-> IF found(e) = {} THEN "non_pointe"
                                ELSE presences[CHOOSE i \in found(e) : TRUE]
                                       .status]
           IN IF has_permission(user.role, "view_salaires")
                THEN d @@ [salaire_journalier |->
                             employes[e].salaire_journalier]
                ELSE d
         code ==
           IF ~require_permission(user, "view_presences") THEN FORBIDDEN
           ELSE IF /\ user.role \notin {ADMIN_GENERAL, DIRECTION, COMPTABLE}
                   /\ ~has_chantier_access(user, chantier_id)
             THEN FORBIDDEN
           ELSE IF date_pointage \notin Dates THEN BAD_REQUEST
           ELSE IF \E e \in rows : Cardinality(found(e)) > 1
             THEN INTERNAL_ERROR
           ELSE OK
     IN query' = [user |-> user, code |-> code,
                  get_pointage_jour |-> IF code = OK
                                          THEN {emp_data(e) : e \in rows}
                                          ELSE {}]
  /\ UNCHANGED <<chantiers, depenses, nextId, last, txn, otherTables>>

NextEmployes ==
  \/ \E user \in AccessIdentities,
        employes_list \in SUBSET
          {[id |-> 1], [id |-> 1, salaire |-> 1],
           [id |-> 2, salaire_journalier |-> 1, info_bancaire |-> 1],
           [id |-> 3, salaire |-> 1, salaire_journalier |-> 1,
            info_bancaire |-> 1]} :
       apply_filter_employes(user, employes_list)
  \/ \E user \in AccessIdentities,
        chantier_id \in {<<>>} \cup {<<c>> : c \in SiteIds} :
       list_employes(user, chantier_id)
  \/ \E user \in AccessIdentities, id \in 1..(MaxEmployes + 1) :
       get_employe(user, id)
  \/ \E user \in AccessIdentities, chantier_id \in SiteIds,
        date_pointage \in Dates \cup {"01/01/2024"} :
       get_pointage_jour(user, chantier_id, date_pointage)

SpecEmployes == InitEmployes /\ [][NextEmployes]_vars

(***************************************************************************)
(* Attendance: enregistrer_pointage and pointage_masse                     *)
(* (api/v1/endpoints/employes.py). A request of enregistrer_pointage is    *)
(* two steps, its SELECT and its commit, so that two requests interleave.  *)
(***************************************************************************)
MaxPresences == 2    \* rows the presences table may hold

PresenceColumns_with_created_by ==
  {"employe_id", "chantier_id", "date", "heures_travaillees", "status",
   "commentaire", "created_by"}

PresenceColumns ==
  {"employe_id", "chantier_id", "date", "heures_travaillees", "status",
   "commentaire"}

\* select(Presence).where(employe_id == ..., date == ...) on a table
existing_presences(table, employe_id, date) ==
  {i \in DOMAIN table :
     table[i].employe_id = employe_id /\ table[i].date = date}

\* Presence(employe_id=, chantier_id=, date=, status=, heures_travaillees=,
\* created_by=) is accepted by the declarative constructor
presence_constructed ==
  constructor_accepts(PresenceColumns,
                      {"employe_id", "chantier_id", "date", "status",
                       "heures_travaillees", "created_by"})

\* POST /employes/pointage/ up to its SELECT and, for a new pair, the
\* construction of the row
enregistrer_pointage_code(user, data) ==
  IF ~require_permission(user, "create_presence") THEN FORBIDDEN
  ELSE IF /\ user.role # ADMIN_GENERAL
          /\ ~has_chantier_access(user, data.chantier_id) THEN FORBIDDEN
  ELSE IF data.date \notin Dates THEN INTERNAL_ERROR
  ELSE IF Cardinality(existing_presences(presences, data.employe_id,
                                         data.date)) > 1
    THEN INTERNAL_ERROR
  ELSE IF /\ existing_presences(presences, data.employe_id, data.date) = {}
          /\ ~presence_constructed
    THEN INTERNAL_ERROR
  ELSE OK

c_select_presence(t, user, data) ==
  /\ t \notin DOMAIN txn
  /\ LET code == enregistrer_pointage_code(user, data)
         found == existing_presences(presences, data.employe_id, data.date)
     IN
     /\ last' = Response("enregistrer_pointage", user, data.employe_id,
                         IF code = OK THEN 0 ELSE code)
     /\ txn' = IF code # OK THEN txn
               ELSE [x \in DOMAIN txn \cup {t} |->
                       IF x # t THEN txn[x]
                       ELSE [user |-> user, data |-> data,
                             existing |-> IF found = {} THEN 0
                                          ELSE CHOOSE i \in found : TRUE]]
  /\ UNCHANGED <<chantiers, depenses, nextId, query, otherTables>>

\* the commit: the UPDATE of the row found, or the INSERT of the new one
c_commit_presence(t) ==
  /\ t \in DOMAIN txn
  /\ txn[t].existing = 0 => Len(presences) < MaxPresences
  /\ presences' =
       IF txn[t].existing # 0
         THEN [presences EXCEPT
                 ![txn[t].existing].status = txn[t].data.status,
                 ![txn[t].existing].chantier_id = txn[t].data.chantier_id]
         ELSE Append(presences,
                     Presence(txn[t].data.employe_id, txn[t].data.chantier_id,
                              txn[t].data.date, txn[t].data.status))
  /\ last' = Response("enregistrer_pointage", txn[t].user,
                      txn[t].data.employe_id, OK)
  /\ txn' = [x \in DOMAIN txn \ {t} |-> txn[x]]
  /\ UNCHANGED <<chantiers, depenses, nextId, query, users, tokens,
                 notifications, documents, employes, materiels, mouvements,
                 seq>>

\* the loop of pointage_masse from entry i on, in the session's view of the
\* table: the table after the loop, and whether the loop ended without a
\* SELECT finding two rows or a row failing to be constructed
RECURSIVE pointage_loop(_, _, _, _, _)
pointage_loop(pointages, i, chantier_id, date, table) ==
  IF i > Len(pointages) THEN [ok |-> TRUE, table |-> table]
  ELSE LET found == existing_presences(table, pointages[i].employe_id, date)
       IN IF Cardinality(found) > 1 THEN [ok |-> FALSE, table |-> table]
          ELSE IF found # {}
            THEN pointage_loop(pointages, i + 1, chantier_id, date,
                   [table EXCEPT ![CHOOSE x \in found : TRUE].status =
                                   pointages[i].status])
          ELSE IF ~presence_constructed THEN [ok |-> FALSE, table |-> table]
          ELSE pointage_loop(pointages, i + 1, chantier_id, date,
                 Append(table, Presence(pointages[i].employe_id, chantier_id,
                                        date, pointages[i].status)))

\* POST /employes/pointage/masse/
pointage_masse(user, chantier_id, date_pointage, pointages) ==
  /\ LET after == pointage_loop(pointages, 1, chantier_id, date_pointage,
                                presences)
         code ==
           IF ~require_permission(user, "manage_presences") THEN FORBIDDEN
           ELSE IF /\ user.role # ADMIN_GENERAL
                   /\ ~has_chantier_access(user, chantier_id) THEN FORBIDDEN
           ELSE IF date_pointage \notin Dates THEN BAD_REQUEST
           ELSE IF ~after.ok THEN INTERNAL_ERROR
           ELSE OK
     IN
     /\ code = OK => Len(after.table) <= MaxPresences
     /\ last' = Response("pointage_masse", user, 0, code)
     /\ presences' = IF code = OK THEN after.table ELSE presences
  /\ UNCHANGED <<chantiers, depenses, nextId, txn, query, users, tokens,
                 notifications, documents, employes, materiels, mouvements,
                 seq>>

NextPointage ==
  \/ \E t \in Txns,
        user \in {[user_id |-> 1, role |-> ADMIN_GENERAL,
                   chantiers_assignes |-> {}],
                  [user_id |-> 2, role |-> CHEF_CHANTIER,
                   chantiers_assignes |-> {1}]},
        data \in [employe_id : 1..2, chantier_id : SiteIds,
                  date : {"2024-01-01", "01/01/2024"},
                  status : {"present", "absent"}] :
       c_select_presence(t, user, data)
  \/ \E t \in Txns : c_commit_presence(t)
  \/ \E user \in {[user_id |-> 1, role |-> ADMIN_GENERAL,
                   chantiers_assignes |-> {}],
                  [user_id |-> 2, role |-> ADMIN_CHANTIER,
                   chantiers_assignes |-> {1}],
                  [user_id |-> 2, role |-> OUVRIER,
                   chantiers_assignes |-> {1}]},
        chantier_id \in SiteIds,
        date_pointage \in {"2024-01-01", "01/01/2024"},
        pointages \in {<<[employe_id |-> 1, status |-> "absent"]>>,
                       <<[employe_id |-> 1, status |-> "absent"],
                         [employe_id |-> 1, status |-> "retard"]>>,
                       <<[employe_id |-> 1, status |-> "retard"],
                         [employe_id |-> 2, status |-> "retard"]>>} :
       pointage_masse(user, chantier_id, date_pointage, pointages)

SpecPointage == InitEmployes /\ [][NextPointage]_vars

(***************************************************************************)
(* Attendance read paths of an ouvrier: DataFilter.filter_presences        *)
(* (core/permissions.py) and get_mon_pointage (employes.py)                *)
(***************************************************************************)
filter_presences(user, presences_list) ==
  IF user.role = OUVRIER
    THEN {p \in presences_list :
            "employe_id" \in DOMAIN p /\ p.employe_id = user.user_id}
    ELSE presences_list

apply_filter_presences(user, presences_list) ==
  /\ query' = [user |-> user, presences |-> presences_list,
               filter_presences |-> filter_presences(user, presences_list)]
  /\ UNCHANGED <<chantiers, depenses, nextId, last, txn, otherTables>>

\* GET /employes/mon-pointage/ without date_debut and date_fin: the WHERE
\* clause on employe_id is commented out
get_mon_pointage(user) ==
  /\ LET code == IF require_permission(user, "view_presence_personnelle")
                   THEN OK ELSE FORBIDDEN
     IN query' = [user |-> user, code |-> code,
                  get_mon_pointage |->
                    IF code = OK THEN {presences[i] : i \in DOMAIN presences}
                    ELSE {}]
  /\ UNCHANGED <<chantiers, depenses, nextId, last, txn, otherTables>>

NextPresences ==
  \/ \E user \in {[user_id |-> u, role |-> r, chantiers_assignes |-> {1}] :
                    u \in 1..2, r \in all_roles},
        presences_list \in SUBSET
          ({Presence(e, 1, d, "present") : e \in 1..2, d \in Dates}
             \cup {[chantier_id |-> 1]}) :
       apply_filter_presences(user, presences_list)
  \/ \E user \in {[user_id |-> u, role |-> r, chantiers_assignes |-> {1}] :
                    u \in 1..2, r \in all_roles} :
       get_mon_pointage(user)

SpecPresences == InitEmployes /\ [][NextPresences]_vars

(***************************************************************************)
(* The list endpoints scoped by site: list_depenses, list_materiels and    *)
(* list_documents (list_employes is above). chantier_id is <<>> when the   *)
(* query parameter is absent, <<c>> otherwise; the other query parameters  *)
(* stay at their defaults.                                                 *)
(***************************************************************************)
\* GET /depenses/
list_depenses(user, chantier_id) ==
  /\ LET scoped(d) ==
           IF user.role = CHEF_CHANTIER
             THEN IF "chantier_id" \in DOMAIN user
                    THEN depenses[d].chantier_id = user.chantier_id
                    ELSE depenses[d].chantier_id \in user.chantiers_assignes
           ELSE IF user.role = ADMIN_CHANTIER
             THEN IF user.chantiers_assignes # {}
                    THEN depenses[d].chantier_id \in user.chantiers_assignes
                  ELSE IF "chantier_id" \in DOMAIN user
                    THEN depenses[d].chantier_id = user.chantier_id
                  ELSE TRUE
           ELSE TRUE
         code ==
           IF ~require_permission(user, "view_depenses") THEN FORBIDDEN
           ELSE IF /\ user.role = CHEF_CHANTIER
                   /\ "chantier_id" \notin DOMAIN user
                   /\ user.chantiers_assignes = {}
             THEN OK
           ELSE IF /\ chantier_id # <<>>
                   /\ user.role \notin {ADMIN_GENERAL, COMPTABLE, DIRECTION}
                   /\ chantier_id[1] \notin user.chantiers_assignes
                   /\ ~is_user_chantier_id(user, chantier_id[1])
             THEN FORBIDDEN
           ELSE OK
     IN query' =
          [user |-> user, code |-> code,
           list_depenses |->
             IF code # OK THEN {}
             ELSE {[id |-> d, chantier_id |-> depenses[d].chantier_id] :
                     d \in {x \in DOMAIN depenses :
                              /\ depenses[x] # None
                              /\ scoped(x)
                              /\ chantier_id # <<>> =>
                                   depenses[x].chantier_id = chantier_id[1]}}]
  /\ UNCHANGED <<chantiers, depenses, nextId, last, txn, otherTables>>

\* GET /materiels/
list_materiels(user, chantier_id) ==
  /\ LET scoped(m) ==
           user.role \in {ADMIN_CHANTIER, CHEF_CHANTIER} =>
             IF user.chantiers_assignes # {}
               THEN materiels[m].chantier_id \in user.chantiers_assignes
             ELSE IF "chantier_id" \in DOMAIN user
               THEN materiels[m].chantier_id = user.chantier_id
             ELSE TRUE
         code ==
           IF ~require_permission(user, "view_stock") THEN FORBIDDEN
           ELSE IF /\ chantier_id # <<>>
                   /\ user.role \notin {ADMIN_GENERAL, MAGASINIER, DIRECTION}
                   /\ ~has_chantier_access(user, chantier_id[1])
             THEN FORBIDDEN
           ELSE OK
     IN query' =
          [user |-> user, code |-> code,
           list_materiels |->
             IF code # OK THEN {}
             ELSE {[id |-> m, chantier_id |-> materiels[m].chantier_id] :
                     m \in {x \in DOMAIN materiels :
                              /\ materiels[x] # None
                              /\ scoped(x)
                              /\ chantier_id # <<>> =>
                                   materiels[x].chantier_id = chantier_id[1]}}]
  /\ UNCHANGED <<chantiers, depenses, nextId, last, txn, otherTables>>

\* GET /documents/: the client branch reads Document.valide_client and the
\* response reads d.valide_client of every row returned
list_documents(user, chantier_id) ==
  /\ LET scoped(d) ==
           IF user.role = COMPTABLE
             THEN documents[d].type_document \in types_comptable
           ELSE IF user.role = MAGASINIER
             THEN documents[d].type_document = "bon_livraison"
           ELSE IF user.role \in {ADMIN_CHANTIER, CHEF_CHANTIER}
             THEN IF user.chantiers_assignes # {}
                    THEN documents[d].chantier_id \in user.chantiers_assignes
                  ELSE IF "chantier_id" \in DOMAIN user
                    THEN documents[d].chantier_id = user.chantier_id
                  ELSE TRUE
           ELSE TRUE
         rows == {x \in DOMAIN documents :
                    /\ documents[x] # None
                    /\ scoped(x)
                    /\ chantier_id # <<>> =>
                         documents[x].chantier_id = chantier_id[1]}
         code ==
           IF ~require_permission(user, "view_documents") THEN FORBIDDEN
           ELSE IF /\ user.role = CLIENT
                   /\ ~reads_column(DocumentColumns, "valide_client")
             THEN INTERNAL_ERROR
           ELSE IF /\ chantier_id # <<>>
                   /\ user.role \notin {ADMIN_GENERAL, DIRECTION, COMPTABLE}
                   /\ ~has_chantier_access(user, chantier_id[1])
             THEN FORBIDDEN
           ELSE IF \E d \in rows : "valide_client" \notin DOMAIN documents[d]
             THEN INTERNAL_ERROR
           ELSE OK
     IN query' =
          [user |-> user, code |-> code,
           list_documents |->
             IF code # OK THEN {}
             ELSE {[id |-> d, chantier_id |-> documents[d].chantier_id] :
                     d \in rows}]
  /\ UNCHANGED <<chantiers, depenses, nextId, last, txn, otherTables>>

NextLists ==
  \/ \E user \in AccessIdentities,
        chantier_id \in {<<>>} \cup {<<c>> : c \in SiteIds} :
       list_depenses(user, chantier_id)
  \/ \E user \in AccessIdentities,
        chantier_id \in {<<>>} \cup {<<c>> : c \in SiteIds} :
       list_materiels(user, chantier_id)
  \/ \E user \in AccessIdentities,
        chantier_id \in {<<>>} \cup {<<c>> : c \in SiteIds} :
       list_employes(user, chantier_id)
  \/ \E user \in AccessIdentities,
        chantier_id \in {<<>>} \cup {<<c>> : c \in SiteIds} :
       list_documents(user, chantier_id)

SpecLists == InitDelete /\ [][NextLists]_vars

(***************************************************************************)
(* Properties                                                              *)
(***************************************************************************)
RECURSIVE SumMontant(_, _)
SumMontant(table, ids) ==
  IF ids = {} THEN 0
  ELSE LET d == CHOOSE x \in ids : TRUE
       IN table[d].montant + SumMontant(table, ids \ {d})

\* the ids of the rows of site c whose status is approuvee
ApprovedOf(table, c) ==
  {d \in DOMAIN table :
     table[d] # None /\ table[d].chantier_id = c /\ table[d].status = APPROUVEE}

\* a request of handler op has just been answered in this step
Answered(op) == last'.op = op /\ vars' # vars

Terminal == {APPROUVEE, REJETEE}

C2_ConcurrentApprovalsCountOnce ==
  (\A t \in DOMAIN txn : txn[t].pc \in {"idle", "done"}) =>
    \A c \in DOMAIN chantiers :
      chantiers[c].budget_consomme =
        SumMontant(depenses, ApprovedOf(depenses, c))

C4_CreateByRole ==
  [][Answered("create_depense") =>
       LET user == last'.user
           site == last'.id
       IN /\ ( /\ site \in DOMAIN chantiers
               /\ \/ user.role \in {ADMIN_GENERAL, COMPTABLE}
                  \/ user.role = CHEF_CHANTIER /\ site \in user.chantiers_assignes )
               => /\ last'.code = OK
                  /\ depenses'[nextId].status = EN_ATTENTE
                  /\ depenses'[nextId].chantier_id = site
          /\ ( /\ site \in DOMAIN chantiers
               /\ user.role = CHEF_CHANTIER
               /\ site \notin user.chantiers_assignes )
               => last'.code = FORBIDDEN /\ depenses' = depenses]_vars

AllowedEdges ==
  {<<EN_ATTENTE, VALIDEE_CHANTIER>>, <<EN_ATTENTE, APPROUVEE>>,
   <<VALIDEE_CHANTIER, APPROUVEE>>, <<EN_ATTENTE, REJETEE>>,
   <<VALIDEE_CHANTIER, REJETEE>>}

\* C5: a new expense has status en_attente; the status of an existing expense
\* changes only along en_attente -> validee_chantier, {en_attente,
\* validee_chantier} -> approuvee and {en_attente, validee_chantier} ->
\* rejetee; no expense is ever annulee, and none leaves approuvee or rejetee
\* for another status.
C5_StatusEdges ==
  [][\A d \in DOMAIN depenses :
       /\ (depenses[d] = None /\ depenses'[d] # None) =>
            depenses'[d].status = EN_ATTENTE
       /\ (depenses[d] # None /\ depenses'[d] # None
             /\ depenses'[d].status # depenses[d].status) =>
            <<depenses[d].status, depenses'[d].status>> \in AllowedEdges
       /\ depenses'[d] # None => depenses'[d].status # ANNULEE]_vars

\* the admin has just moved an expense to rejetee
C5_Witness ==
  /\ last.op = "reject_depense" /\ last.code = OK
  /\ Exists(last.id) /\ depenses[last.id].status = REJETEE

\* C6: an expense that is approuvee stays as it is in every later step (same
\* row, same status, same montant); reject, update and delete requests on it
\* are refused, reject as 400 InvalidState once the caller has passed the
\* admin check.
C6_ApprovedImmutable ==
  [][\A d \in DOMAIN depenses :
       (depenses[d] # None /\ depenses[d].status = APPROUVEE) =>
         /\ depenses'[d] = depenses[d]
         /\ ( /\ last'.id = d
              /\ \/ Answered("reject_depense")
                 \/ Answered("update_depense")
                 \/ Answered("delete_depense") )
              => last'.code # OK
         /\ ( /\ last'.id = d
              /\ Answered("reject_depense")
              /\ last'.user.role = ADMIN_GENERAL )
              => last'.code = BAD_REQUEST]_vars

\* the admin's delete of an approved expense has been refused; the row is
\* still there
C6_Witness ==
  /\ last.op = "delete_depense" /\ last.code = BAD_REQUEST
  /\ last.user.role = ADMIN_GENERAL
  /\ Exists(last.id) /\ depenses[last.id].status = APPROUVEE

\* C7: no step lowers a site's budget_consomme, whatever amounts the expenses
\* carry, and a step changes it only if it moves an expense of that site to
\* approuvee.
C7_BudgetMonotone ==
  [][\A c \in DOMAIN chantiers :
       /\ chantiers'[c].budget_consomme >= chantiers[c].budget_consomme
       /\ chantiers'[c].budget_consomme # chantiers[c].budget_consomme =>
            \E d \in DOMAIN depenses :
              /\ depenses[d] # None /\ depenses'[d] # None
              /\ depenses[d].chantier_id = c
              /\ depenses[d].status # APPROUVEE
              /\ depenses'[d].status = APPROUVEE]_vars

\* the caller holds validate_commande_chantier and, as admin_chantier, is
\* assigned to the expense's site, and the expense is en_attente
MayValidateChantier(user, d) ==
  /\ depenses[d] # None /\ depenses[d].status = EN_ATTENTE
  /\ \/ user.role = ADMIN_GENERAL
     \/ "validate_commande_chantier" \in ROLE_PERMISSIONS[user.role]
  /\ user.role = ADMIN_CHANTIER =>
       depenses[d].chantier_id \in user.chantiers_assignes

\* C8: validate_depense_chantier moves an en_attente expense to
\* validee_chantier when the caller holds validate_commande_chantier and, if
\* admin_chantier, is assigned to the expense's site; every other request is
\* refused and leaves the expenses unchanged; no other step makes an expense
\* validee_chantier.
C8_ValidateChantier ==
  [][/\ Answered("validate_depense_chantier") =>
          IF last'.id \in DOMAIN depenses
               /\ MayValidateChantier(last'.user, last'.id)
            THEN /\ last'.code = OK
                 /\ depenses' = [depenses EXCEPT
                                   ![last'.id].status = VALIDEE_CHANTIER]
            ELSE last'.code # OK /\ depenses' = depenses
     /\ \A d \in DOMAIN depenses :
          ( /\ depenses'[d] # None
            /\ depenses'[d].status = VALIDEE_CHANTIER
            /\ depenses[d] # depenses'[d] ) =>
             /\ last'.op = "validate_depense_chantier"
             /\ last'.id = d /\ last'.code = OK]_vars

\* an admin_chantier has validated an expense of its own site
C8_Witness ==
  /\ last.op = "validate_depense_chantier" /\ last.code = OK
  /\ last.user.role = ADMIN_CHANTIER
  /\ Exists(last.id) /\ depenses[last.id].status = VALIDEE_CHANTIER
  /\ depenses[last.id].chantier_id \in last.user.chantiers_assignes

\* C9 as stated: update_depense changes the expense only when it is
\* en_attente and the caller is its creator or admin_general; the creator of
\* an en_attente expense is always answered 200; a refused request changes
\* nothing.
C9_CreatorCanAlwaysEdit ==
  [][Answered("update_depense") =>
       LET user == last'.user
           d == last'.id
       IN /\ depenses' # depenses =>
               /\ depenses[d] # None /\ depenses[d].status = EN_ATTENTE
               /\ \/ depenses[d].created_by = user.user_id
                  \/ user.role = ADMIN_GENERAL
          /\ ( /\ depenses[d] # None /\ depenses[d].status = EN_ATTENTE
               /\ depenses[d].created_by = user.user_id )
               => last'.code = OK
          /\ last'.code # OK => depenses' = depenses]_vars

\* C9 amended: as above, the creator of an en_attente expense being answered
\* 200 provided the role of its identity holds the create_depense permission.
C9_CreatorWithPermissionCanEdit ==
  [][Answered("update_depense") =>
       LET user == last'.user
           d == last'.id
       IN /\ depenses' # depenses =>
               /\ depenses[d] # None /\ depenses[d].status = EN_ATTENTE
               /\ \/ depenses[d].created_by = user.user_id
                  \/ user.role = ADMIN_GENERAL
          /\ ( /\ depenses[d] # None /\ depenses[d].status = EN_ATTENTE
               /\ depenses[d].created_by = user.user_id
               /\ \/ user.role = ADMIN_GENERAL
                  \/ "create_depense" \in ROLE_PERMISSIONS[user.role] )
               => last'.code = OK
          /\ last'.code # OK => depenses' = depenses]_vars

\* a comptable has edited the montant of the en_attente expense it created
C9_Witness ==
  /\ last.op = "update_depense" /\ last.code = OK
  /\ last.user.role = COMPTABLE
  /\ Exists(last.id) /\ depenses[last.id].created_by = last.user.user_id
  /\ depenses[last.id].status = EN_ATTENTE
  /\ depenses[last.id].montant = 1

\* C10: has_permission(role, permission) is true iff role is admin_general or
\* permission is in the table entry of role; so admin_general holds every
\* permission of every role's table, and a role that is not one of the eight
\* has level 0 and holds no permission.
C10_HasPermission ==
  query # <<>> =>
    /\ query.has_permission <=>
         \/ query.role = ADMIN_GENERAL
         \/ /\ query.role \in DOMAIN ROLE_PERMISSIONS
            /\ query.permission \in ROLE_PERMISSIONS[query.role]
    /\ ( /\ query.role = ADMIN_GENERAL
         /\ \E r \in DOMAIN ROLE_PERMISSIONS :
              query.permission \in ROLE_PERMISSIONS[r] )
         => query.has_permission
    /\ query.role \notin all_roles =>
         query.level = 0 /\ ~query.has_permission

\* an unknown role string has been denied a permission that ouvrier holds
C10_Witness ==
  /\ query # <<>>
  /\ query.role = "conducteur" /\ query.permission = "pointer"
  /\ ~query.has_permission /\ query.level = 0

GlobalAccessRoles == {ADMIN_GENERAL, DIRECTION, COMPTABLE, MAGASINIER}

\* C11: has_chantier_access(identity, site) is true iff the identity's role
\* is admin_general, direction, comptable or magasinier, or the site is in
\* the identity's assigned list; require_chantier_access answers Forbidden
\* exactly when it is false.
C11_ChantierAccess ==
  query # <<>> =>
    /\ query.has_chantier_access <=>
         \/ query.user.role \in GlobalAccessRoles
         \/ query.chantier_id \in query.user.chantiers_assignes
    /\ query.require_chantier_access = FORBIDDEN
         <=> ~query.has_chantier_access
    /\ query.require_chantier_access \in {OK, FORBIDDEN}

\* an admin_chantier assigned to site 1 only has been refused site 2, and
\* the guard answered Forbidden
C11_Witness ==
  /\ query # <<>>
  /\ query.user.role = ADMIN_CHANTIER
  /\ query.user.chantiers_assignes = {1} /\ query.chantier_id = 2
  /\ ~query.has_chantier_access
  /\ query.require_chantier_access = FORBIDDEN
\* the persisted tables
tables ==
  <<chantiers, depenses, users, notifications, documents, employes,
    materiels, mouvements>>

\* C12: every operation that writes persisted state is rejected, leaving the
\* state unchanged, when the caller's role is direction (the claim names the
\* answer Forbidden; any refusal is accepted here, so a violation is a
\* request of a direction caller that succeeds or writes).
C12_DirectionReadOnly ==
  [][ (last'.user.role = DIRECTION /\ vars' # vars)
        => (last'.code # OK /\ tables' = tables) ]_vars
\* C13: a user's role changes only through update_user_role called by an
\* admin_general identity: can_change_role is true for admin_general only,
\* and a role-change request by any other role is answered Forbidden and
\* leaves every user's role unchanged.
C13_RoleChangeAdminOnly ==
  [][ /\ \A u \in UserIds :
           (users[u] # None /\ users'[u].role # users[u].role)
             => /\ Answered("update_user_role")
                /\ last'.user.role = ADMIN_GENERAL
                /\ last'.id = u /\ last'.code = OK
      /\ (Answered("update_user_role") /\ last'.user.role # ADMIN_GENERAL)
           => (last'.code = FORBIDDEN /\ users' = users)
      /\ \A r \in RoleInputs, n \in RoleChoices :
           can_change_role(r, n) <=> r = ADMIN_GENERAL ]_vars

\* a user whose role the admin changed after it logged in has asked for a
\* role change with its old token and has been refused
C13_Witness ==
  /\ last.op = "update_user_role" /\ last.code = FORBIDDEN
  /\ last.user.role # ADMIN_GENERAL
  /\ users[last.user.user_id] # None
  /\ users[last.user.user_id].role # last.user.role

\* C14: after any sequence of setup-admin, register and update_user_role
\* requests handled one at a time, at most one user has role admin_general,
\* and a role change that succeeded did not assign admin_general.
C14_SingleAdmin ==
  /\ Cardinality(admin_rows) <= 1
  /\ (last.op = "update_user_role" /\ last.code = OK)
       => users[last.id].role # ADMIN_GENERAL

\* the admin_general has asked register for a second admin_general and has
\* been refused
C14_Witness ==
  /\ last.op = "register" /\ last.code = FORBIDDEN
  /\ last.user.role = ADMIN_GENERAL
  /\ Cardinality(admin_rows) = 1
  /\ seq.users <= MaxUsers
\* the row a delete request of handler op names exists
TargetExists(op, id) ==
  LET table == IF op = "delete_chantier" THEN chantiers
               ELSE IF op = "delete_depense" THEN depenses
               ELSE IF op = "delete_employe" THEN employes
               ELSE IF op = "delete_materiel" THEN materiels
               ELSE documents
  IN id \in DOMAIN table /\ table[id] # None

DeleteOps ==
  {"delete_chantier", "delete_depense", "delete_employe", "delete_materiel",
   "delete_document"}

\* C15 as stated: a delete request for an existing site, expense, employee,
\* material or document by a caller whose role is not admin_general is
\* answered Forbidden and the entity remains.
C15_DeleteAdminOnly ==
  [][ \A op \in DeleteOps :
        ( /\ Answered(op)
          /\ last'.user.role # ADMIN_GENERAL
          /\ TargetExists(op, last'.id) )
          => (last'.code = FORBIDDEN /\ tables' = tables) ]_vars

\* the caller is an admin_chantier whose assigned sites contain the site of
\* document id
OwnSiteAdminChantier(user, id) ==
  /\ user.role = ADMIN_CHANTIER
  /\ id \in DOMAIN documents /\ documents[id] # None
  /\ documents[id].chantier_id \in user.chantiers_assignes

\* C15 as amended: sites, expenses, employees and materials are deleted by
\* admin_general only, and a document by admin_general or by an
\* admin_chantier whose assigned sites contain the document's site; any
\* other delete request for an existing entity is answered Forbidden and
\* the entity remains.
C15_DeleteAdminOrOwnSiteDocument ==
  [][ \A op \in DeleteOps :
        ( /\ Answered(op)
          /\ last'.user.role # ADMIN_GENERAL
          /\ TargetExists(op, last'.id)
          /\ ~(op = "delete_document"
               /\ OwnSiteAdminChantier(last'.user, last'.id)) )
          => (last'.code = FORBIDDEN /\ tables' = tables) ]_vars

\* an admin_chantier that deleted the document of its own site has been
\* refused the document of the other site, which is still there
C15_Witness ==
  /\ last.op = "delete_document" /\ last.code = FORBIDDEN
  /\ last.user.role = ADMIN_CHANTIER
  /\ documents[last.id] # None
  /\ \E d \in DocumentIds : documents[d] = None

\* the client-visibility flag a documents row stores: "absent" when the
\* row has no such column
valide_client_of(row) ==
  IF "valide_client" \notin DOMAIN row THEN "absent"
  ELSE IF row.valide_client THEN "true" ELSE "false"

\* may the caller validate or unvalidate this document for the client?
MayValidate(user, id) ==
  \/ user.role = ADMIN_GENERAL
  \/ /\ user.role = ADMIN_CHANTIER
     /\ documents[id].chantier_id \in user.chantiers_assignes

\* C16: an uploaded document starts with valide_client false; a successful
\* validate-client leaves it true and a successful unvalidate-client leaves
\* it false, both answered only to admin_general or to the admin_chantier of
\* the document's site; no other request changes the flag of a document.
C16_ValideClientGate ==
  [][ /\ (Answered("upload_document") /\ last'.code = OK)
           => \E d \in DocumentIds :
                /\ documents[d] = None /\ documents'[d] # None
                /\ valide_client_of(documents'[d]) = "false"
      /\ (Answered("validate_document_for_client") /\ last'.code = OK)
           => /\ MayValidate(last'.user, last'.id)
              /\ valide_client_of(documents'[last'.id]) = "true"
      /\ (Answered("unvalidate_document_for_client") /\ last'.code = OK)
           => /\ MayValidate(last'.user, last'.id)
              /\ valide_client_of(documents'[last'.id]) = "false"
      /\ \A d \in DocumentIds :
           (/\ documents[d] # None /\ documents'[d] # None
            /\ valide_client_of(documents'[d]) # valide_client_of(documents[d]))
             => /\ last'.op \in {"validate_document_for_client",
                                 "unvalidate_document_for_client"}
                /\ last'.id = d /\ last'.code = OK
    ]_vars

balance_at(table, nom, chantier_id) ==
  IF materiels_named(table, nom, chantier_id) = {} THEN 0
  ELSE quantite_or_0(table[CHOOSE m \in materiels_named(table, nom,
                                                        chantier_id) : TRUE])

\* a permitted transfer of an existing material between two different
\* existing sites
TransferCase(user, data) ==
  /\ require_permission(user, "transfer_stock")
  /\ data.chantier_source_id \in SiteIds
  /\ data.chantier_destination_id \in SiteIds
  /\ data.chantier_source_id # data.chantier_destination_id
  /\ data.materiel_id \in MaterielIds
  /\ materiels[data.materiel_id] # None
  /\ materiels[data.materiel_id].chantier_id = data.chantier_source_id

\* C18: a transfer of q of a material from site A (balance bA) to another
\* site B (balance bB, 0 when B does not have the material) leaves bA - q on
\* A and bB + q on B when q <= bA; when q > bA it is rejected and neither a
\* balance nor the movement ledger changes.
C18_TransferBalances ==
  [][ \A user \in Callers, data \in TransfertRequest :
        (transferer_materiel(user, data) /\ TransferCase(user, data)) =>
          LET nom == materiels[data.materiel_id].nom
              bA  == quantite_or_0(materiels[data.materiel_id])
              bB  == balance_at(materiels, nom, data.chantier_destination_id)
          IN  IF data.quantite <= bA
                THEN /\ quantite_or_0(materiels'[data.materiel_id])
                          = bA - data.quantite
                     /\ balance_at(materiels', nom,
                                   data.chantier_destination_id)
                          = bB + data.quantite
                ELSE /\ last'.op = "transferer_materiel"
                     /\ last'.code # OK
                     /\ UNCHANGED <<materiels, mouvements>>
    ]_vars

\* CountMouvements(type, quantite): the ledger rows of that type and quantity
CountMouvements(type_mouvement, quantite) ==
  Cardinality({i \in DOMAIN mouvements :
                 /\ mouvements[i].type_mouvement = type_mouvement
                 /\ mouvements[i].quantite = quantite})

\* C19: the two ledger entries and the two balance changes of a transfer
\* are committed together: in every committed state each transfert_sortant
\* entry has its transfert_entrant entry of the same quantity.
C19_TransferAtomic ==
  \A q \in TransfertQuantites :
    CountMouvements("transfert_sortant", q)
      = CountMouvements("transfert_entrant", q)

\* the signed quantity a ledger row adds to its material
signed(mouvement) ==
  IF mouvement.type_mouvement \in {"entree", "reception", "transfert_entrant"}
    THEN mouvement.quantite
  ELSE IF mouvement.type_mouvement \in {"sortie", "transfert_sortant"}
    THEN 0 - mouvement.quantite
  ELSE IF mouvement.sens = "augmentation" THEN mouvement.quantite
  ELSE 0 - mouvement.quantite

RECURSIVE net(_, _)
\* the net of the first n ledger rows of material m
net(m, n) ==
  IF n = 0 THEN 0
  ELSE net(m, n - 1)
         + (IF mouvements[n].materiel_id = m THEN signed(mouvements[n]) ELSE 0)

\* C20: whenever no request is under way, each material's quantite equals
\* the net of its movement records (entree, reception and transfert_entrant
\* added, sortie and transfert_sortant subtracted, ajustement in its
\* direction).
C20_QuantiteIsLedgerNet ==
  txn = <<>> =>
    \A m \in MaterielIds :
      materiels[m] # None =>
        /\ "quantite" \in DOMAIN materiels[m]
        /\ materiels[m].quantite = net(m, Len(mouvements))

\* C21: a sortie of more than the material's balance is refused, whoever
\* asks, and leaves every quantite and the movement ledger as they were: a
\* refused movement changes nothing, and an accepted sortie is never larger
\* than the balance it was taken from.
C21_SortieGuard ==
  [][ Answered("create_mouvement") =>
        IF last'.code # OK
          THEN UNCHANGED <<materiels, mouvements>>
          ELSE mouvements'[Len(mouvements')].type_mouvement = "sortie"
                 => mouvements'[Len(mouvements')].quantite
                      <= quantite_or_0(materiels[last'.id])
    ]_vars

\* a permitted caller's movement on a material whose stock is below every
\* quantity a request carries was answered 400
C21_Witness ==
  /\ last.op = "create_mouvement"
  /\ last.code = BAD_REQUEST
  /\ last.user.role = ADMIN_GENERAL
  /\ last.id \in MaterielIds
  /\ materiels[last.id] # None
  /\ \A q \in Quantites : q > quantite_or_0(materiels[last.id])
  /\ \E i \in DOMAIN mouvements :
       /\ mouvements[i].materiel_id = last.id
       /\ mouvements[i].type_mouvement = "sortie"

\* C22: when concurrent sortie requests for positive quantities have all
\* been answered, every material's quantite is its seeded balance minus the
\* quantities of the requests that succeeded, each of which left its sortie
\* row in the ledger, and is not negative, whatever the interleaving of
\* their read and write steps.
C22_ConcurrentSortiesNoOverdraw ==
  (\A t \in DOMAIN txn : txn[t].pc \in {"idle", "done"}) =>
    \A m \in MaterielIds :
      materiels[m] # None =>
        /\ materiels[m].quantite >= 0
        /\ materiels[m].quantite = net(m, Len(mouvements))

\* the sites of a list the spec lets the caller see
ScopedSites(user, chantiers_list) ==
  IF user.role \in GlobalAccessRoles THEN chantiers_list
  ELSE IF user.role = CLIENT
    THEN {c \in chantiers_list :
            "client_id" \in DOMAIN c /\ c.client_id = user.user_id}
  ELSE {c \in chantiers_list : c.id \in user.chantiers_assignes}

SalaryKeys == {"salaire", "salaire_journalier", "info_bancaire"}

C24_WitnessFilter ==
  /\ "filter_employes" \in DOMAIN query
  /\ query.user.role = ADMIN_CHANTIER
  /\ \E emp \in query.employes : "info_bancaire" \in DOMAIN emp
  /\ query.filter_employes # {}

\* list_employes and get_employe never answer 200 with a row to a caller who
\* holds view_employes without view_salaires: the dict they build lacks the
\* salaire_journalier that EmployeResponse requires
C24_RedactedListIsRefused ==
  \A op \in {"list_employes", "get_employe"} :
    (op \in DOMAIN query /\ ~has_permission(query.user.role, "view_salaires"))
      => query[op] = {}

\* C25: a notification row changes or disappears only in a request of the
\* user it belongs to; mark_as_read and delete_notification on another
\* user's notification answer 403 and leave the table unchanged, whatever
\* the caller's role; the list and the count cover only the caller's rows.
C25_OwnerOnly ==
  [][ /\ \A n \in NotificationIds :
           (notifications[n] # None /\ notifications'[n] # notifications[n])
             => notifications[n].user_id = last'.user.user_id
      /\ ( /\ \/ Answered("mark_as_read")
              \/ Answered("delete_notification")
           /\ last'.id \in NotificationIds
           /\ notifications[last'.id] # None
           /\ notifications[last'.id].user_id # last'.user.user_id )
           => last'.code = FORBIDDEN /\ UNCHANGED notifications
      /\ (query' # query /\ "list_notifications" \in DOMAIN query') =>
           \A n \in query'.list_notifications :
             notifications'[n].user_id = query'.user.user_id
      /\ (query' # query /\ "count" \in DOMAIN query') =>
           query'.count <=
             Cardinality({n \in NotificationIds :
                            /\ notifications'[n] # None
                            /\ notifications'[n].user_id = query'.user.user_id})
    ]_vars

C25_Witness ==
  /\ last.op = "mark_as_read"
  /\ last.code = FORBIDDEN
  /\ last.user.role = ADMIN_GENERAL
  /\ last.id \in NotificationIds
  /\ notifications[last.id] # None
  /\ notifications[last.id].user_id # last.user.user_id
  /\ ~notifications[last.id].is_read

OnePresencePerDay(table) ==
  \A i, j \in DOMAIN table :
    (table[i].employe_id = table[j].employe_id /\ table[i].date = table[j].date)
      => i = j

C26_WitnessMasse ==
  /\ last.op = "pointage_masse"
  /\ last.code = OK
  /\ Len(presences) = 1
  /\ presences[1].status = "retard"

\* C27: what filter_presences and get_mon_pointage return to an ouvrier are
\* presence rows of the caller only (employe_id equal to the caller's
\* user_id).
C27_OwnPresencesOnly ==
  \A op \in {"filter_presences", "get_mon_pointage"} :
    (op \in DOMAIN query /\ query.user.role = OUVRIER) =>
      \A p \in query[op] : p.employe_id = query.user.user_id

\* the part of C27 that holds: the filter alone
C27_FilterOwnOnly ==
  ("filter_presences" \in DOMAIN query /\ query.user.role = OUVRIER) =>
    \A p \in query.filter_presences : p.employe_id = query.user.user_id

\* C28: to an admin_chantier or chef_chantier, whatever its assigned set,
\* list_depenses, list_materiels, list_employes and list_documents return
\* only records whose chantier_id is in that set.
C28_AssignedSitesOnly ==
  \A op \in {"list_depenses", "list_materiels", "list_employes",
             "list_documents"} :
    (op \in DOMAIN query /\ query.user.role \in {ADMIN_CHANTIER, CHEF_CHANTIER})
      => \A r \in query[op] : r.chantier_id \in query.user.chantiers_assignes

\* the same for callers whose assigned set is not empty
C28_NonEmptyAssignedSitesOnly ==
  \A op \in {"list_depenses", "list_materiels", "list_employes",
             "list_documents"} :
    ( /\ op \in DOMAIN query
      /\ query.user.role \in {ADMIN_CHANTIER, CHEF_CHANTIER}
      /\ query.user.chantiers_assignes # {} )
      => \A r \in query[op] : r.chantier_id \in query.user.chantiers_assignes

\* document d is validated and its site belongs to the client user_id
OwnValidated(d, user_id) ==
  /\ d \in DocumentIds
  /\ documents[d] # None
  /\ "valide_client" \in DOMAIN documents[d]
  /\ documents[d].valide_client
  /\ "client_id" \in DOMAIN chantiers[documents[d].chantier_id]
  /\ chantiers[documents[d].chantier_id].client_id = user_id

C30_AdminGeneralStays ==
  [][ /\ \A u \in UserIds :
           ( /\ users[u] # None
             /\ users[u].role = ADMIN_GENERAL
             /\ users[u].is_active )
           => /\ users'[u] # None
              /\ users'[u].role = ADMIN_GENERAL
              /\ users'[u].is_active
      /\ ( \/ Answered("update_user_role")
           \/ Answered("deactivate_user") )
           => \A u \in UserIds :
                users'[u] # users[u] => u # last'.user.user_id
    ]_vars

C30_Witness ==
  /\ last.op = "deactivate_user"
  /\ last.code = BAD_REQUEST
  /\ last.id = last.user.user_id
  /\ last.id \in UserIds
  /\ users[last.id] # None
  /\ users[last.id].role = ADMIN_GENERAL
  /\ users[last.id].is_active
  /\ \E u \in UserIds : users[u] # None /\ ~users[u].is_active

====
